---------------------------- MODULE Spec2Model ----------------------------
(***************************************************************************)
(* A model of the JBoss-to-Spring migration tool (src/ai_migration):       *)
(* the phase pipeline of migration_script.py, the migrators, the oracle    *)
(* gateway OpenAIClient.query and the test gate of TestRunner.             *)
(*                                                                         *)
(* Texts (prompts, oracle replies, file contents) are sequences of tokens. *)
(* A token is a string: a word, a punctuation mark, a line break, a code   *)
(* fence, or one of the explanatory phrases the code looks for.  Adjacent  *)
(* tokens are separated by one blank, so the regular expression \s+        *)
(* between two words is adjacency of two tokens.  Python's None is the     *)
(* one-token text None, which no oracle reply or file content equals.      *)
(***************************************************************************)
EXTENDS Integers, Sequences, FiniteSets, TLC

(***************************************************************************)
(* Program constants.                                                      *)
(***************************************************************************)
max_attempts == 3          \* OpenAIClient.query(max_attempts=3)
max_retries == 3           \* migrate_entity / migrate_repository
gate_max_attempts == 5     \* run_tests_until_success(max_attempts=5)
comprehensive_from == 2    \* "if attempt >= 2" in run_tests_until_success

(***************************************************************************)
(* Bounds of the model.                                                    *)
(***************************************************************************)
MaxFiles == 1             \* files a glob of gather_code_files returns
\* largest max_attempts run_tests_until_success is called with on its own
MaxGateAttempts == 6
MaxTree == 2              \* files in a tree the pre-pass is run on
MaxBatch == 2             \* entries of a repair batch
MaxDecls == 2             \* type declarations of a content handed to a validator

(***************************************************************************)
(* Tokens                                                                  *)
(***************************************************************************)
None == <<"<None>">>
NL == "\n"
Fence == "<fence>"         \* the code fence, three backquotes
Marker == "// Additional code removed due to duplicate class declaration"
StubTodo == "// TODO: This is a minimal stub generated due to failures in the migration process"

explanation_indicators ==
    {"This cannot be provided", "I cannot provide", "Here is the",
     "The file should", "This is a", "This code", "Without seeing"}

KindWords == {"class", "interface", "enum"}
Punct == {NL, Fence, "{", "}", ";", Marker, StubTodo, "@Entity", "@Repository",
          "// Make sure all method return types match those in"}
IsWord(t) == t \notin Punct

Range(s) == {s[i] : i \in DOMAIN s}

\* str.strip(): line breaks are the only blank tokens
RECURSIVE lstrip(_)
lstrip(s) == IF s # <<>> /\ Head(s) = NL THEN lstrip(Tail(s)) ELSE s

RECURSIVE rstrip(_)
rstrip(s) ==
    IF s # <<>> /\ s[Len(s)] = NL THEN rstrip(SubSeq(s, 1, Len(s) - 1)) ELSE s

strip(s) == rstrip(lstrip(s))

\* content.strip().startswith(indicator) for some indicator
starts_with_indicator(s) ==
    LET t == strip(s) IN t # <<>> /\ Head(t) \in explanation_indicators

\* any(indicator in content ...)
contains_indicator(s) == Range(s) \cap explanation_indicators # {}

\* index of the first occurrence of token t in s at or after position from, 0 if none
RECURSIVE find_from(_, _, _)
find_from(s, t, from) ==
    IF from > Len(s) THEN 0
    ELSE IF s[from] = t THEN from
    ELSE find_from(s, t, from + 1)

\* str.split(sep): the pieces of s between the occurrences of token sep
RECURSIVE split(_, _)
split(s, sep) ==
    LET i == find_from(s, sep, 1)
    IN IF i = 0 THEN <<s>>
       ELSE <<SubSeq(s, 1, i - 1)>> \o split(SubSeq(s, i + 1, Len(s)), sep)

\* sep.join(pieces)
RECURSIVE join(_, _)
join(pieces, sep) ==
    IF pieces = <<>> THEN <<>>
    ELSE IF Len(pieces) = 1 THEN pieces[1]
    ELSE pieces[1] \o <<sep>> \o join(Tail(pieces), sep)

\* re.search(r'(public|private|protected)?\s+(class|interface|enum)\s+\w+', s):
\* the modifier is optional but the blank before the kind word is not, so the
\* kind word is not the first token
has_type_declaration(s) ==
    \E i \in 2..(Len(s) - 1) : s[i] \in KindWords /\ IsWord(s[i + 1])

\* "public class" in content or "public interface" in content
has_public_class_or_interface(s) ==
    \E i \in 1..(Len(s) - 1) :
        s[i] = "public" /\ s[i + 1] \in {"class", "interface"}

\* the lines of a java block that do not start with an explanatory phrase
filter_lines(code) ==
    join(SelectSeq(split(code, NL),
                   LAMBDA line : ~starts_with_indicator(line)), NL)

\* OpenAIClient._extract_code_if_present, the loop over the fenced blocks:
\* python's odd indices 1, 3, ... of content.split(fence) are the even
\* positions here; the first block that is not blank and has a line break
\* decides
RECURSIVE extract_from_blocks(_, _, _)
extract_from_blocks(code_blocks, i, content) ==
    IF i > Len(code_blocks)
    THEN \* no block decided: the final checks of the function
         IF contains_indicator(content) THEN None ELSE content
    ELSE LET block == code_blocks[i]
         IN IF strip(block) # <<>> /\ NL \in Range(block)
            THEN LET nl == find_from(block, NL, 1)
                     lang_identifier == strip(SubSeq(block, 1, nl - 1))
                     code == strip(SubSeq(block, nl + 1, Len(block)))
                 IN IF lang_identifier \in {<<"java">>, <<"Java">>, <<"JAVA">>}
                    THEN LET filtered == filter_lines(code)
                         IN IF ~has_type_declaration(filtered)
                            THEN None
                            ELSE filtered
                    ELSE code
            ELSE extract_from_blocks(code_blocks, i + 2, content)

\* OpenAIClient._extract_code_if_present
_extract_code_if_present(content) ==
    IF starts_with_indicator(content) THEN None
    ELSE IF Fence \in Range(content)
         THEN extract_from_blocks(split(content, Fence), 2, content)
    ELSE IF has_public_class_or_interface(content) /\ has_type_declaration(content)
         THEN content
    ELSE IF contains_indicator(content) THEN None
    ELSE content

(***************************************************************************)
(* File names are sequences of parts, the last one the extension:          *)
(* <<"Member", "Test", ".java">> is MemberTest.java.                       *)
(***************************************************************************)
RECURSIVE concat(_)
concat(parts) == IF parts = <<>> THEN "" ELSE Head(parts) \o concat(Tail(parts))

\* the texts of a list one after the other
RECURSIVE concat_all(_)
concat_all(texts) ==
    IF texts = <<>> THEN <<>> ELSE Head(texts) \o concat_all(Tail(texts))

\* file_name.replace(".java", "")
without_ext(file_name) == concat(SelectSeq(file_name, LAMBDA p : p # ".java"))

(***************************************************************************)
(* The artifact validators.                                                *)
(***************************************************************************)
\* class_pattern of validate_java_file: the kinds it looks for
class_pattern_kinds == KindWords

interface_pattern_kinds_any == KindWords

\* interface_pattern of validate_repository_file
interface_pattern_kinds == {"interface"}

\* re.findall of r"(public\s+K)\s+(\w+)" for the kind words K in kinds: the
\* positions of the matches, left to right, not overlapping
RECURSIVE decl_positions(_, _, _)
decl_positions(s, kinds, i) ==
    IF i + 2 > Len(s) THEN <<>>
    ELSE IF s[i] = "public" /\ s[i + 1] \in kinds /\ IsWord(s[i + 2])
         THEN <<i>> \o decl_positions(s, kinds, i + 3)
         ELSE decl_positions(s, kinds, i + 1)

\* the pattern of re.sub ends with the name and no word boundary follows it:
\* a word that begins with the name matches too
starts_with(word, name) ==
    Len(word) >= Len(name) /\ SubSeq(word, 1, Len(name)) = name

\* re.sub(f"(public\s+K)\s+{name}", f"\1 {expected}", content): in every
\* declaration whose name begins with the name, that beginning is replaced
\* by the expected name
rename_one(content, kinds, name, expected) ==
    [i \in DOMAIN content |->
        IF i > 2 /\ IsWord(content[i]) /\ starts_with(content[i], name)
                 /\ content[i - 1] \in kinds /\ content[i - 2] = "public"
        THEN expected \o SubSeq(content[i], Len(name) + 1, Len(content[i]))
        ELSE content[i]]

\* the loop over the declared names found before any renaming
RECURSIVE rename_all(_, _, _, _)
rename_all(content, kinds, names, expected) ==
    IF names = <<>> THEN content
    ELSE rename_all(IF Head(names) # expected
                    THEN rename_one(content, kinds, Head(names), expected)
                    ELSE content,
                    kinds, Tail(names), expected)

\* "Keeping only the first one": the text of group 1 of the first match is
\* looked up with content.find, the pattern is searched behind it, and the
\* content is cut where that match starts
trim_duplicates(content, classes) ==
    LET kind == content[classes[1] + 1]
        first == CHOOSE i \in 1..(Len(content) - 1) :
                    /\ content[i] = "public" /\ content[i + 1] = kind
                    /\ \A j \in 1..(i - 1) :
                          ~(content[j] = "public" /\ content[j + 1] = kind)
        behind == decl_positions(content, KindWords, first + 2)
    IN IF behind # <<>>
       THEN SubSeq(content, 1, behind[1] - 1) \o <<Marker>>
       ELSE content

\* EntityMigrator.validate_java_file; content is not None (None has no strip())
validate_java_file(file_name, content) ==
    IF starts_with_indicator(content) THEN None
    ELSE LET matches == decl_positions(content, class_pattern_kinds, 1)
         IN IF matches = <<>> THEN None
            ELSE LET file_name_without_ext == without_ext(file_name)
                     names == [k \in DOMAIN matches |-> content[matches[k] + 2]]
                     renamed == rename_all(content, class_pattern_kinds, names,
                                           file_name_without_ext)
                     classes == decl_positions(renamed, class_pattern_kinds, 1)
                 IN IF Len(classes) > 1
                    THEN trim_duplicates(renamed, classes)
                    ELSE renamed

\* the advisory comment put before every "public interface"
RECURSIVE add_parent_comment(_, _)
add_parent_comment(content, parent_interface) ==
    IF content = <<>> THEN <<>>
    ELSE IF Len(content) > 1 /\ content[1] = "public" /\ content[2] = "interface"
         THEN <<"// Make sure all method return types match those in",
                parent_interface, NL, "public", "interface">>
              \o add_parent_comment(SubSeq(content, 3, Len(content)), parent_interface)
         ELSE <<Head(content)>> \o add_parent_comment(Tail(content), parent_interface)

\* RepositoryMigrator.validate_repository_file; content is not None
validate_repository_file(file_name, content) ==
    IF starts_with_indicator(content) THEN None
    ELSE LET matches == decl_positions(content, interface_pattern_kinds, 1)
         IN IF matches = <<>> THEN None
            ELSE LET file_name_without_ext == without_ext(file_name)
                     names == [k \in DOMAIN matches |-> content[matches[k] + 2]]
                     renamed == rename_all(content, interface_pattern_kinds, names,
                                           file_name_without_ext)
                     ext == find_from(renamed, "extends", 1)
                 IN IF ext # 0 /\ ext < Len(renamed) /\ IsWord(renamed[ext + 1])
                    THEN add_parent_comment(renamed, renamed[ext + 1])
                    ELSE renamed

(***************************************************************************)
(* The fallback stubs.                                                     *)
(***************************************************************************)
\* the minimal class of migrate_entity
entity_stub(package, class_name) ==
    <<"package", package, ";", NL, "@Entity", NL,
      "public", "class", class_name, "{", NL, StubTodo, NL, "}", NL>>

\* the minimal interface of migrate_repository
repository_stub(package, interface_name) ==
    <<"package", package, ";", NL, "@Repository", NL,
      "public", "interface", interface_name, "extends", "JpaRepository", "{", NL,
      StubTodo, NL, "}", NL>>

(***************************************************************************)
(* Inputs: what the oracle may answer and the files the globs may find.    *)
(***************************************************************************)
Responses ==
    { \* rejected by the gateway: an explanatory sentence
      <<"I cannot provide", "this", "without", "seeing", "more", "context.">>,
      \* rejected by the gateway: a java block without a type declaration
      <<Fence, "java", NL, "int", "x", ";", NL, Fence>>,
      \* a java block with a class
      <<Fence, "java", NL, "package", "com.acme", ";", NL,
        "public", "class", "Member", "{", "}", NL, Fence>>,
      \* an interface without a fence
      <<"public", "interface", "Other", "extends", "Base", "{", "}">>,
      \* a block of another language holding prose
      <<Fence, NL, "Here is the", "code", NL, Fence>>,
      \* a repair batch
      <<"{", "modify:src/main/java/com/acme/Member.java",
        "additional:src/main/java/com/acme/ExtraTest.java", "}">>,
      \* a repair batch cut short
      <<"{", "modify:src/main/java/com/acme/Member.java">> }

SystemMessage == <<"SYSTEM">>
Prompt == <<"PROMPT">>
StrictHeader == "IMPORTANT: You MUST ONLY output valid Java code and NOTHING ELSE."
Corrective == <<"The response is not valid Java code. Please provide ONLY Java code with no explanations or text.">>

\* the files **/model/*.java may find: name, whether "test" occurs in the
\* directories of the path, and the package the content declares ("": none)
EntityFiles ==
    { [name |-> <<"Member", ".java">>, test_path |-> FALSE, package |-> ""],
      [name |-> <<"Member", ".java">>, test_path |-> TRUE, package |-> "com.acme.model"],
      [name |-> <<"Member", "Test", ".java">>, test_path |-> FALSE, package |-> ""] }

\* the files the other globs may find
OtherFiles ==
    { [name |-> <<"Member", "Repository", ".java">>, test_path |-> FALSE, package |-> ""],
      [name |-> <<"Test", "Repository", ".java">>, test_path |-> FALSE,
       package |-> "com.acme.data"] }

NoFile == [name |-> <<>>, test_path |-> FALSE, package |-> ""]

\* "Test" in file_name or file_name.startswith("test") or file_name.endswith("Test")
is_test_name(file_name) ==
    \/ "Test" \in Range(file_name)
    \/ file_name # <<>> /\ Head(file_name) = "test"
    \/ file_name # <<>> /\ file_name[Len(file_name)] = "Test"

\* migrate_entity: "Test" in file_name or "test" in str(entity_file)
is_test_file(file) ==
    "Test" \in Range(file.name) \/ "test" \in Range(file.name) \/ file.test_path

\* the root migrate_entity writes under
target_dir_type(file) == IF is_test_file(file) THEN "test" ELSE "main"

(***************************************************************************)
(* The output tree and the pre-pass of the test gate.  A file is a record  *)
(* of its directory (the segments of the absolute path), its name and its  *)
(* content; a tree is the list of its .java files in the order rglob       *)
(* yields them.                                                            *)
(***************************************************************************)
\* "/main/java/" in str(file_path), "/test/java/" in str(file_path)
in_root(dir, root) ==
    \E i \in 1..(Len(dir) - 1) : dir[i] = root /\ dir[i + 1] = "java"

\* str(file_path).replace("/main/java/", "/test/java/"): the occurrences are
\* replaced left to right; one that starts at the slash that ends the
\* previous one is not an occurrence
RECURSIVE replace_main_root(_, _)
replace_main_root(dir, i) ==
    IF i > Len(dir) THEN <<>>
    ELSE IF i < Len(dir) /\ dir[i] = "main" /\ dir[i + 1] = "java"
         THEN <<"test", "java">>
              \o (IF i + 2 <= Len(dir) THEN <<dir[i + 2]>> ELSE <<>>)
              \o replace_main_root(dir, i + 3)
         ELSE <<dir[i]>> \o replace_main_root(dir, i + 1)

\* ".".join(segments)
RECURSIVE dotted(_)
dotted(segments) ==
    IF segments = <<>> THEN ""
    ELSE IF Len(segments) = 1 THEN segments[1]
    ELSE segments[1] \o "." \o dotted(Tail(segments))

\* path_parts.index("java") is the first segment named java, whichever
\* directory it is; the expected package is what lies between it and the name
expected_package(dir) ==
    dotted(SubSeq(dir, find_from(dir, "java", 1) + 1, Len(dir)))

\* re.search(r'package\s+([^;]+);', content): the positions of the "package"
\* token and of the ";" of the first match, <<0, 0>> if there is none.  At
\* least one token that is not ";" lies between the two.
package_match(content) ==
    LET starts == {i \in 1..(Len(content) - 2) :
                      /\ content[i] = "package" /\ content[i + 1] # ";"
                      /\ find_from(content, ";", i + 2) # 0}
    IN IF starts = {} THEN <<0, 0>>
       ELSE LET i == CHOOSE k \in starts : \A j \in starts : k <= j
            IN <<i, find_from(content, ";", i + 2)>>

\* group(1) of the match: \s+ takes the line breaks in front as long as
\* something is left for the group
package_group(content, match) ==
    LET raw == SubSeq(content, match[1] + 1, match[2] - 1)
    IN IF lstrip(raw) # <<>> THEN lstrip(raw) ELSE <<raw[Len(raw)]>>

\* re.sub(f"package\s+{re.escape(package)};", f"package {expected};", content):
\* every occurrence of the declaration is replaced; an empty expected
\* package leaves "package ;"
RECURSIVE sub_package(_, _, _)
sub_package(content, package, expected) ==
    LET pattern == <<"package">> \o package \o <<";">>
        n == Len(pattern)
    IN IF Len(content) < n THEN content
       ELSE IF SubSeq(content, 1, n) = pattern
       THEN (IF expected = "" THEN <<"package", ";">>
                              ELSE <<"package", expected, ";">>)
            \o sub_package(SubSeq(content, n + 1, Len(content)), package, expected)
       ELSE <<Head(content)>> \o sub_package(Tail(content), package, expected)

\* the file at a path, as a set: empty if there is none
file_at(files_on_disk, dir, name) ==
    {i \in DOMAIN files_on_disk :
        files_on_disk[i].dir = dir /\ files_on_disk[i].name = name}

\* FileUtils.write_file_content on the tree: the file is created or overwritten
write_file_content(files_on_disk, dir, name, content) ==
    IF file_at(files_on_disk, dir, name) = {}
    THEN Append(files_on_disk, [dir |-> dir, name |-> name, content |-> content])
    ELSE [i \in DOMAIN files_on_disk |->
             IF i \in file_at(files_on_disk, dir, name)
             THEN [files_on_disk[i] EXCEPT !.content = content]
             ELSE files_on_disk[i]]

\* os.remove(file_path)
remove(files_on_disk, dir, name) ==
    SelectSeq(files_on_disk, LAMBDA f : ~(f.dir = dir /\ f.name = name))

\* the body of the loop of _validate_file_structure for one listed file;
\* st is the tree so far, whether an exception was raised, the files moved
check_one_file(st, file_path) ==
    LET dir == file_path.dir
        file_name == file_path.name
        is_test == is_test_name(file_name)
        in_test_dir == in_root(dir, "test")
        in_main_dir == in_root(dir, "main")
        moves == is_test /\ in_main_dir
        here == file_at(st.tree, dir, file_name)
        after_move ==
            IF moves /\ here # {}
            THEN remove(write_file_content(st.tree, replace_main_root(dir, 1),
                                           file_name,
                                           st.tree[CHOOSE i \in here : TRUE].content),
                        dir, file_name)
            ELSE st.tree
        there == file_at(after_move, dir, file_name)
    IN IF there = {}
       THEN \* read_file_content(file_path) raises FileNotFoundError
            [tree |-> after_move, raised |-> TRUE,
             moved |-> st.moved + (IF moves /\ here # {} THEN 1 ELSE 0)]
       ELSE LET content == after_move[CHOOSE i \in there : TRUE].content
                package_match_ == package_match(content)
            IN IF package_match_[1] # 0 /\ (in_main_dir \/ in_test_dir)
               THEN LET package == package_group(content, package_match_)
                        expected == expected_package(dir)
                    IN IF package # <<expected>>
                       THEN [st EXCEPT !.tree =
                               write_file_content(after_move, dir, file_name,
                                   sub_package(content, package, expected))]
                       ELSE [st EXCEPT !.tree = after_move]
               ELSE [st EXCEPT !.tree = after_move]

\* the loop over all_java_files, the listing made before the loop
RECURSIVE check_files(_, _)
check_files(all_java_files, st) ==
    IF all_java_files = <<>> \/ st.raised THEN st
    ELSE check_files(Tail(all_java_files), check_one_file(st, Head(all_java_files)))

\* TestRunner._validate_file_structure on a tree
validate_file_structure(files_on_disk) ==
    check_files(files_on_disk, [tree |-> files_on_disk, raised |-> FALSE, moved |-> 0])

(***************************************************************************)
(* FileUtils: the package resolver.  A package is a string; NoPackage is   *)
(* the None the extractors return.                                         *)
(***************************************************************************)
NoPackage == "<None>"

\* " ".join of tokens: the text of a piece of a line
RECURSIVE spaced(_)
spaced(tokens) ==
    IF tokens = <<>> THEN ""
    ELSE IF Len(tokens) = 1 THEN tokens[1]
    ELSE tokens[1] \o " " \o spaced(Tail(tokens))

\* line.strip().replace("package ", "").replace(";", ""): every "package"
\* with something behind it and every ";" is dropped, the rest of the line
\* stays
package_of_line(line) ==
    LET keep == {i \in DOMAIN line :
                    /\ line[i] # ";"
                    /\ ~(line[i] = "package" /\ i < Len(line))}
        RECURSIVE kept(_)
        kept(i) == IF i > Len(line) THEN <<>>
                   ELSE (IF i \in keep THEN <<line[i]>> ELSE <<>>) \o kept(i + 1)
    IN spaced(kept(1))

\* the loop of extract_package_from_content over content.splitlines()
RECURSIVE first_package_line(_)
first_package_line(lines) ==
    IF lines = <<>> THEN NoPackage
    ELSE LET line == strip(Head(lines))
         IN IF Len(line) >= 2 /\ line[1] = "package"
            THEN package_of_line(line)
            ELSE first_package_line(Tail(lines))

\* FileUtils.extract_package_from_content
extract_package_from_content(content) == first_package_line(split(content, NL))

\* FileUtils.extract_package_from_path; path_parts are the directory segments
\* and the file name
extract_package_from_path(path_parts) ==
    LET java_index == find_from(path_parts, "java", 1)
    IN IF java_index >= 1 /\ java_index + 1 <= Len(path_parts)
       THEN dotted(SubSeq(path_parts, java_index + 1, Len(path_parts) - 1))
       ELSE NoPackage

\* "if package:" is false for None and for the empty string
truthy(package) == package \notin {NoPackage, ""}

\* FileUtils.get_safe_package_path
get_safe_package_path(path_parts, content, default_package) ==
    IF truthy(extract_package_from_content(content))
    THEN extract_package_from_content(content)
    ELSE IF truthy(extract_package_from_path(path_parts))
    THEN extract_package_from_path(path_parts)
    ELSE default_package

\* the directories, names and contents the trees are built from
TreeDirs ==
    { <<"out", "src", "main", "java", "com", "acme">>,
      <<"out", "src", "test", "java", "com", "acme">>,
      <<"out", "src", "main", "java">>,                      \* right under the root
      <<"java", "out", "src", "main", "java", "com", "acme">>, \* target under a java directory
      <<"out", "docs">> }                                    \* under neither root

TreeNames == { <<"Member", ".java">>, <<"Member", "Test", ".java">> }

TreeContents ==
    { <<"public", "class", "Member", "{", "}">>,
      <<"package", "com.acme", ";", NL, "public", "class", "Member", "{", "}">>,
      <<"package", "org.old", ";", NL, "public", "class", "Member", "{", "}">>,
      <<"package", "org.old", ";", NL, "//", "package", "org.other", ";", NL,
        "public", "class", "Member", "{", "}">> }

TreeFiles ==
    [dir : TreeDirs, name : TreeNames, content : TreeContents]

\* the contents and defaults the resolver is called with
ResolverContents ==
    TreeContents \cup
    { <<"package", "com.acme", ";", "//", "model", "classes", NL,
        "public", "class", "Member", "{", "}">> }

DefaultPackages == {"org.jboss.as.quickstarts.kitchensink.model", ""}

\* the trees of at most MaxTree files, no two at the same path
Trees ==
    UNION { {t \in [1..n -> TreeFiles] :
                \A i, j \in 1..n :
                    (t[i].dir = t[j].dir /\ t[i].name = t[j].name) => i = j}
            : n \in 1..MaxTree }

(***************************************************************************)
(* Repair batches.  A batch is the text "{" entries "}"; each entry is one *)
(* token, and json_entry gives the object json.loads makes of it: the list *)
(* it belongs to, the keys it has, the path (directory segments and the    *)
(* parts of the file name, relative to target_dir) and the code.           *)
(***************************************************************************)
target_dir == <<"out">>

\* how many writes of a batch the disk takes before it fails
DiskBudgets == 0..MaxBatch

WrongCode == <<"package", "org.old", ";", NL, "public", "class", "Other", "{", "}">>
TestCode == <<"package", "com.acme", ";", NL, "public", "class", "MemberTest", "{", "}">>
ExplanatoryCode == <<"This is a", "placeholder", "for", "the", "test.">>
PomCode == <<"<project/>">>

AcmeMain == <<"src", "main", "java", "com", "acme">>
AcmeTest == <<"src", "test", "java", "com", "acme">>

BatchEntries ==
    {"modify:src/main/java/com/acme/Member.java",      \* wrong class name and package
     "modify:src/main/java/com/acme/MemberTest.java",  \* a test under the main root
     "modify:src/main/java/com/acme/MemberTest.java (explanatory)",
     "modify:src/test/java/com/acme/MemberTest.java",  \* a test under the test root
     "modify:pom.xml",                                 \* not a .java file
     "modify:src/main/java/com/acme/MemberTest.kt",    \* test-named, not .java
     "modify:(no file_path)",                          \* the entry lacks a key
     "modify:src/main/java/com/acme/Member.java (no code)",
     "additional:src/main/java/com/acme/ExtraTest.java"} \* a new test under the main root

json_entry(token) ==
    LET entry(list, keys, dir, name, code) ==
            [list |-> list, keys |-> keys, dir |-> dir, name |-> name, code |-> code]
        both == {"file_path", "code"}
    IN CASE token = "modify:src/main/java/com/acme/Member.java" ->
              entry("files_to_modify", both, AcmeMain, <<"Member", ".java">>, WrongCode)
         [] token = "modify:src/main/java/com/acme/MemberTest.java" ->
              entry("files_to_modify", both, AcmeMain, <<"Member", "Test", ".java">>, TestCode)
         [] token = "modify:src/main/java/com/acme/MemberTest.java (explanatory)" ->
              entry("files_to_modify", both, AcmeMain, <<"Member", "Test", ".java">>,
                    ExplanatoryCode)
         [] token = "modify:src/test/java/com/acme/MemberTest.java" ->
              entry("files_to_modify", both, AcmeTest, <<"Member", "Test", ".java">>, TestCode)
         [] token = "modify:pom.xml" ->
              entry("files_to_modify", both, <<>>, <<"pom", ".xml">>, PomCode)
         [] token = "modify:src/main/java/com/acme/MemberTest.kt" ->
              entry("files_to_modify", both, AcmeMain, <<"Member", "Test", ".kt">>, TestCode)
         [] token = "modify:(no file_path)" ->
              entry("files_to_modify", {"code"}, <<>>, <<>>, WrongCode)
         [] token = "modify:src/main/java/com/acme/Member.java (no code)" ->
              entry("files_to_modify", {"file_path"}, AcmeMain, <<"Member", ".java">>, <<>>)
         [] token = "additional:src/main/java/com/acme/ExtraTest.java" ->
              entry("additional_files", both, AcmeMain, <<"Extra", "Test", ".java">>, TestCode)

\* response.rfind('}'): the last position of the token, 0 if none
RECURSIVE rfind(_, _, _)
rfind(s, t, i) == IF i = 0 THEN 0 ELSE IF s[i] = t THEN i ELSE rfind(s, t, i - 1)

\* json.loads of the text from the first "{" to the last "}" succeeds
json_loads_ok(json_content) ==
    \A i \in 2..(Len(json_content) - 1) : json_content[i] \in BatchEntries

\* the indicators of _process_solution, fewer than those of the validators
solution_indicators ==
    {"This cannot be provided", "I cannot provide", "The file should", "This is a"}

\* any(file_code.strip().startswith(indicator) ...)
starts_with_solution_indicator(file_code) ==
    LET t == strip(file_code) IN t # <<>> /\ Head(t) \in solution_indicators

\* file_path.endswith(".java")
is_java(name) == name # <<>> /\ name[Len(name)] = ".java"

\* the class name of _process_solution: the first declaration, of any kind,
\* gets the file name if it has another name
fix_class_name(file_code, filename) ==
    LET class_match == decl_positions(file_code, KindWords, 1)
    IN IF class_match # <<>> /\ file_code[class_match[1] + 2] # filename
       THEN rename_one(file_code, KindWords, file_code[class_match[1] + 2], filename)
       ELSE file_code

\* "model" in file_path, "data" in file_path: a segment or a part of the
\* name is the word
path_has(dir, name, word) == word \in Range(dir) \cup Range(name)

\* the package _process_solution expects at a path
solution_expected_package(dir, name) ==
    IF in_root(dir, "main") \/ in_root(dir, "test")
    THEN expected_package(dir)
    ELSE IF path_has(dir, name, "model")
    THEN "org.jboss.as.quickstarts.kitchensink.model"
    ELSE IF path_has(dir, name, "data")
    THEN "org.jboss.as.quickstarts.kitchensink.data"
    ELSE "org.jboss.as.quickstarts.kitchensink"

\* "Ensure package declaration matches file path"
fix_package(file_code, dir, name) ==
    LET package_match_ == package_match(file_code)
    IN IF package_match_[1] # 0
       THEN LET package == package_group(file_code, package_match_)
                expected == solution_expected_package(dir, name)
            IN IF package # <<expected>>
               THEN sub_package(file_code, package, expected)
               ELSE file_code
       ELSE file_code

is_test_filename_never(name) == FALSE

\* "Test" in filename or filename.startswith("test") or filename.endswith("test"),
\* the filename without ".java"
is_test_filename(name) ==
    LET parts == SelectSeq(name, LAMBDA p : p # ".java")
    IN \/ "Test" \in Range(parts)
       \/ parts # <<>> /\ Head(parts) = "test"
       \/ parts # <<>> /\ parts[Len(parts)] = "test"

solution_write_never_fails(acc, disk, k, dir, name, content) ==
    [acc EXCEPT !.written =
        Append(@, [entry |-> k, dir |-> dir, name |-> name, content |-> content])]

\* one write of _process_solution: the disk takes the first disk writes of
\* a batch and fails from then on (makedirs or open raises OSError)
solution_write(acc, disk, k, dir, name, content) ==
    IF Len(acc.written) >= disk
    THEN [acc EXCEPT !.raised = TRUE]
    ELSE [acc EXCEPT !.written =
             Append(@, [entry |-> k, dir |-> dir, name |-> name, content |-> content])]

\* the body of the loop over files_to_modify for entry k
modify_file(acc, disk, k, file_info) ==
    IF "file_path" \notin file_info.keys \/ "code" \notin file_info.keys
    THEN [acc EXCEPT !.raised = TRUE]                     \* KeyError
    ELSE LET dir == target_dir \o file_info.dir
             name == file_info.name
         IN IF is_java(name)
            THEN IF starts_with_solution_indicator(file_info.code)
                 THEN acc                                 \* continue
                 ELSE LET filename == without_ext(name)
                          file_code == fix_package(fix_class_name(file_info.code, filename),
                                                   dir, name)
                      IN IF is_test_filename(name) /\ in_root(dir, "main")
                         THEN solution_write(acc, disk, k, replace_main_root(dir, 1),
                                             name, file_code)
                         ELSE solution_write(acc, disk, k, dir, name, file_code)
            ELSE solution_write(acc, disk, k, dir, name, file_info.code)

\* the body of the loop over additional_files for entry k
create_file(acc, disk, k, file_info) ==
    IF "file_path" \notin file_info.keys \/ "code" \notin file_info.keys
    THEN [acc EXCEPT !.raised = TRUE]
    ELSE solution_write(acc, disk, k, target_dir \o file_info.dir, file_info.name,
                        file_info.code)

\* the two loops of _process_solution: an exception ends them
RECURSIVE apply_entries(_, _, _, _)
apply_entries(entries, k, disk, acc) ==
    IF k > Len(entries) \/ acc.raised THEN acc
    ELSE LET file_info == json_entry(entries[k])
         IN apply_entries(entries, k + 1, disk,
                IF file_info.list = "files_to_modify"
                THEN modify_file(acc, disk, k, file_info)
                ELSE create_file(acc, disk, k, file_info))

\* "if json_start >= 0 and json_end > json_start", json_end being the
\* position of the last "}" here and one more in the source
has_json_when_opened(json_start, json_end) == json_start >= 1

has_json(json_start, json_end) == json_start >= 1 /\ json_end > json_start

\* solution["files_to_modify"] followed by solution["additional_files"]
solution_entries(response) ==
    LET json_start == find_from(response, "{", 1)
        json_end == rfind(response, "}", Len(response))
        body == SubSeq(response, json_start + 1, json_end - 1)
    IN SelectSeq(body, LAMBDA e : json_entry(e).list = "files_to_modify")
       \o SelectSeq(body, LAMBDA e : json_entry(e).list = "additional_files")

\* TestRunner._process_solution: whether it returned True, the writes it
\* made in their order, their number, and whether a test-named .java file
\* was written under the main root; disk is the number of writes that succeed
_process_solution(response, disk) ==
    LET result_of(acc) ==
            [applied |-> ~acc.raised, written |-> acc.written,
             writes |-> Len(acc.written),
             test_in_main |->
                 \E i \in DOMAIN acc.written :
                     /\ is_java(acc.written[i].name)
                     /\ is_test_name(acc.written[i].name)
                     /\ in_root(acc.written[i].dir, "main")]
        nothing == [raised |-> TRUE, written |-> <<>>]
    IN IF response = None THEN result_of(nothing)    \* None.find raises, caught
       ELSE LET json_start == find_from(response, "{", 1)
                json_end == rfind(response, "}", Len(response))
            IN IF has_json(json_start, json_end)
               THEN IF json_loads_ok(SubSeq(response, json_start, json_end))
                    THEN result_of(apply_entries(solution_entries(response), 1, disk,
                                       [raised |-> FALSE, written |-> <<>>]))
                    ELSE result_of(nothing)          \* json.JSONDecodeError
               ELSE result_of(nothing)

(***************************************************************************)
(* The phases of migrate()                                                 *)
(***************************************************************************)
phase_order == <<"data", "service", "rest", "ui", "validation">>

branch_name(p) ==
    CASE p = "data" -> "phase1-data-layer"
      [] p = "service" -> "phase2-service-layer"
      [] p = "rest" -> "phase3-rest-api"
      [] p = "ui" -> "phase4-ui-layer"
      [] p = "validation" -> "phase5-validation"

\* what each phase does between its branch and its test gate
phase_steps(p) ==
    CASE p = "data" -> <<"pom", "properties", "main_class", "entities",
                         "repositories", "database">>
      [] p = "service" -> <<"services", "transactions">>
      [] p = "rest" -> <<"rest">>
      [] p = "ui" -> <<"jsf", "controllers">>
      [] p = "validation" -> <<"validate_entities", "validate_controllers">>

ConfigSteps == {"pom", "properties", "main_class", "database", "transactions"}

\* a phase that commits whatever its gate returned
phase_commits_always(gate_result) == TRUE

\* a phase commits only if its gate succeeded:
\* "if not self.test_runner.run_tests_until_success(): ... return False"
phase_commits(gate_result) == gate_result

\* a migrate() that ignores what the phase returned
migrate_continues_always(phase_result) == TRUE

\* migrate(): "if not self.migrate_x(): return"
migrate_continues(phase_result) == phase_result

(***************************************************************************)
(* The oracle gateway: decisions of OpenAIClient.query                     *)
(***************************************************************************)
Message(role, content) == [role |-> role, content |-> content]

\* the message list of one attempt: on a retry every user turn is dropped
\* and the strict prompt is appended
build_messages(msgs, att, prompt) ==
    IF att > 0
    THEN SelectSeq(msgs, LAMBDA m : m.role # "user")
         \o <<Message("user", <<StrictHeader>> \o prompt)>>
    ELSE msgs \o <<Message("user", prompt)>>

\* a gateway that treats an error status like any other response
status_never_ends_query(status_code) == FALSE

\* "if response.status_code != 200: ... return None"
status_ends_query(status_code) == status_code # 200

\* a gateway that only returns once a reply is accepted
query_returns_on_success_only(res, att) == res # None

\* "if result is not None or attempt == max_attempts - 1: return result"
query_returns(res, att) == res # None \/ att = max_attempts - 1

\* what is appended after a rejected reply
after_rejection(msgs, content) ==
    msgs \o <<Message("assistant", content), Message("user", Corrective)>>

(***************************************************************************)
(* Decisions of the migrators and of the test gate                         *)
(***************************************************************************)
\* a retry loop that runs once more than max_retries
retries_again_off_by_one(content, count) == content = None /\ count <= max_retries

\* "while migrated_entity is None and retry_count < max_retries"
retries_again(content, count) == content = None /\ count < max_retries

\* a gate that tries the comprehensive repair one attempt early
tries_comprehensive_from_one(att) == att >= comprehensive_from - 1

\* "if attempt >= 2" before _try_comprehensive_fix
tries_comprehensive(att) == att >= comprehensive_from

\* what the operator may type
OperatorAnswers == {"y", "Y", "n", "yes", ""}

\* str.lower() on those answers
lower(text) == CASE text = "Y" -> "y" [] OTHER -> text

\* an operator check that forgets lower()
operator_declines_case_sensitive(user_input) == user_input # "y"

\* "if user_input.lower() != 'y': return False"
operator_declines(user_input) == lower(user_input) # "y"

VARIABLES
    pc,             \* where the run is
    phase,          \* index into phase_order
    step,           \* index into phase_steps of the phase
    files,          \* files left in the loop of the step, -1: not gathered
    file,           \* the source file of the migrator invocation
    \* OpenAIClient.query
    q_state,        \* "idle", "running", "returned"
    attempt,        \* the loop variable of query
    messages,       \* the message list of query
    sent,           \* payload["messages"] of the latest request
    status_code,    \* of the latest response, 0: none
    reply,          \* the content of the latest response
    result,         \* what query returned
    requests,       \* requests sent by this query call
    \* migrate_entity, migrate_repository
    retry_count,
    migrated,       \* migrated_entity / migrated_repo
    \* run_tests_until_success
    gate_attempt,   \* the loop variable
    gate_result,    \* what the gate returned, per phase: "none", "true", "false"
    phase_result,   \* what the phase method returned to migrate()
    \* the collaborators
    branches,       \* names given to create_branch, in order
    commits,        \* phases committed, in order
    last_test,      \* result of the latest run_tests of the phase
    dirty,          \* a file was written since the latest run_tests
    test_in_main,   \* a test-named .java file is under src/main/java
    crash,          \* the exception that ended the process, "" if none
    \* history
    acted,          \* per phase, whether an action of the phase was performed
    after_fail,     \* actions performed after a gate returned False
    invocation,     \* the latest migrate_entity / migrate_repository: its
                    \* gateway calls, whether a result was valid, whether
                    \* the stub was made, the artifacts written, how it ended
    validated_reply, \* the reply whose outcome was handed to a validator
    \* run_tests_until_success
    gate_max,       \* its parameter max_attempts
    gate_log,       \* history of the gate invocation: test runs made, what
                    \* the repairs of the attempt returned, what the operator
                    \* answered, whether the final test run was made
    \* the file utilities and the pre-pass, on their own
    tree,           \* the .java files of the output tree: path and content
    prepass_log,    \* history of the pre-pass runs on the tree
    resolved,       \* a call of get_safe_package_path: arguments and result
    \* _process_solution and the validators, on their own
    repair,         \* a call of _process_solution: response, disk, outcome
    validation,     \* a validator applied to a content, and to its own output
    preprocess      \* a call of _preprocess_prompt: the prompt and what it returned

qvars == <<q_state, attempt, messages, sent, status_code, reply, result, requests>>
mvars == <<file, retry_count, migrated, invocation, validated_reply>>
gvars == <<gate_attempt, gate_result, phase_result, last_test>>
hvars == <<gate_max, gate_log>>
pvars == <<repair, validation, preprocess>>
fvars == <<tree, prepass_log, resolved, repair, validation, preprocess>>
ovars == <<pc, phase, step, files, branches, commits, dirty, test_in_main, crash,
           acted, after_fail>>
vars == <<pc, phase, step, files, file, q_state, attempt, messages, sent,
          status_code, reply, result, requests, retry_count, migrated,
          gate_attempt, gate_result, phase_result, last_test, branches, commits, dirty,
          test_in_main, crash, acted, after_fail, invocation, validated_reply,
          gate_max, gate_log, tree, prepass_log, resolved, repair, validation,
          preprocess>>

Phases == 1..Len(phase_order)

\* a loop that makes one iteration too many
gate_loop_continues_once_more(att) == att <= gate_max

\* "for attempt in range(max_attempts)" of run_tests_until_success
gate_loop_continues(att) == att < gate_max

\* a gate that asks the operator on any attempt
asks_operator_on_any_attempt(att) == TRUE

\* "if attempt == max_attempts - 1" before the operator is asked
asks_operator(att) == att = gate_max - 1

\* the gate invocation has made no step yet
NoGateLog ==
    [test_runs |-> 0, repair |-> "none", comprehensive |-> "none",
     user_input |-> "<none>", final_run |-> FALSE, prepass |-> 0]

\* the pre-pass has not run
NoPrepass == [runs |-> 0, raised |-> FALSE, moved |-> 0, initial |-> <<>>,
              first |-> <<>>]

\* get_safe_package_path has not been called
NoCall == [called |-> FALSE, default_package |-> "", package |-> ""]

\* _process_solution has not been called
NoRepair == [state |-> "none", response |-> <<>>, disk |-> 0, applied |-> FALSE,
             written |-> <<>>]

\* _preprocess_prompt has not been called
NoPreprocess ==
    [called |-> FALSE,
     prompt |-> [pre |-> 0, pad |-> 0, fence |-> "none", lines |-> <<>>],
     output |-> 0, skeleton |-> FALSE]

\* no validator has been applied
NoValidation == [runs |-> 0, validator |-> "none", file_name |-> <<>>,
                 content |-> <<>>, output |-> <<>>, again |-> <<>>]

NoInvocation ==
    [state |-> "none", calls |-> 0, valid |-> FALSE, stub |-> FALSE, written |-> 0]

Init ==
    /\ pc = "branch" /\ phase = 1 /\ step = 1 /\ files = -1 /\ file = NoFile
    /\ q_state = "idle" /\ attempt = 0 /\ messages = <<>> /\ sent = <<>>
    /\ status_code = 0 /\ reply = <<>> /\ result = None /\ requests = 0
    /\ retry_count = 0 /\ migrated = None
    /\ gate_attempt = 0 /\ gate_result = [k \in Phases |-> "none"]
    /\ phase_result = FALSE /\ last_test = "none"
    /\ branches = <<>> /\ commits = <<>> /\ dirty = FALSE /\ test_in_main = FALSE
    /\ crash = ""
    /\ acted = [k \in Phases |-> FALSE] /\ after_fail = 0
    /\ invocation = NoInvocation /\ validated_reply = <<>>
    /\ gate_max = gate_max_attempts /\ gate_log = NoGateLog
    /\ tree = <<>> /\ prepass_log = NoPrepass /\ resolved = NoCall
    /\ repair = NoRepair /\ validation = NoValidation
    /\ preprocess = NoPreprocess

(***************************************************************************)
(* Helpers of the actions                                                  *)
(***************************************************************************)
\* records that the step performs an action on a collaborator (a branch, a
\* commit, an oracle request, a file write, a test run)
Effect(kind) ==
    /\ acted' = [acted EXCEPT ![phase] = TRUE]
    /\ after_fail' = IF \E k \in Phases : gate_result[k] = "false"
                     THEN after_fail + 1 ELSE after_fail

NoEffect == UNCHANGED <<acted, after_fail>>

\* a call of query: the locals of lines 18-23
CallQuery ==
    /\ q_state' = "running" /\ attempt' = 0
    /\ messages' = <<Message("system", SystemMessage)>>
    /\ sent' = <<>> /\ status_code' = 0 /\ reply' = <<>> /\ result' = None
    /\ requests' = 0

\* the caller has taken the value query returned
QueryOver ==
    /\ q_state' = "idle" /\ attempt' = 0 /\ messages' = <<>> /\ sent' = <<>>
    /\ status_code' = 0 /\ reply' = <<>> /\ result' = None /\ requests' = 0

\* an uncaught exception ends the process
Raise(exception) == pc' = "crashed" /\ crash' = exception

current_step == phase_steps(phase_order[phase])[step]
in_step(name) ==
    /\ pc = "steps" /\ step <= Len(phase_steps(phase_order[phase]))
    /\ current_step = name

\* the migrator invocation is over: back to the loop of the step
NextFile == pc' = "steps" /\ files' = files - 1 /\ file' = NoFile

(***************************************************************************)
(* OpenAIClient.query: one attempt, from building the messages to the      *)
(* handling of the response                                                *)
(***************************************************************************)
query ==
    /\ q_state = "running"
    /\ \E response \in {[status_code |-> 500, content |-> <<>>]}
                      \cup {[status_code |-> 200, content |-> c] : c \in Responses} :
         LET payload == build_messages(messages, attempt, Prompt)
             extracted == _extract_code_if_present(response.content)
         IN /\ sent' = payload
            /\ requests' = requests + 1
            /\ status_code' = response.status_code
            /\ reply' = response.content
            /\ IF status_ends_query(response.status_code)
               THEN /\ result' = None /\ q_state' = "returned"
                    /\ UNCHANGED <<attempt, messages>>
               ELSE IF query_returns(extracted, attempt)
               THEN /\ result' = extracted /\ q_state' = "returned"
                    /\ messages' = payload
                    /\ UNCHANGED attempt
               ELSE /\ messages' = after_rejection(payload, response.content)
                    /\ attempt' = attempt + 1
                    /\ UNCHANGED <<result, q_state>>
    /\ Effect("query")
    /\ UNCHANGED <<pc, phase, step, files, branches, commits, dirty, test_in_main,
                   crash>>
    /\ UNCHANGED mvars /\ UNCHANGED gvars /\ UNCHANGED hvars /\ UNCHANGED fvars


(***************************************************************************)
(* migration_script.py: the phase methods up to the test gate              *)
(***************************************************************************)
\* self.git_manager.create_branch(...), the first statement of a phase
create_branch ==
    /\ pc = "branch"
    /\ branches' = Append(branches, branch_name(phase_order[phase]))
    /\ pc' = "steps" /\ step' = 1 /\ files' = -1
    /\ last_test' = "none"
    /\ Effect("branch")
    /\ UNCHANGED <<phase, commits, dirty, test_in_main, crash, gate_attempt,
                   gate_result, phase_result>>
    /\ UNCHANGED qvars /\ UNCHANGED mvars /\ UNCHANGED hvars /\ UNCHANGED fvars

\* gather_code_files(pattern): the glob finds some number of files
gather_code_files ==
    /\ pc = "steps" /\ step <= Len(phase_steps(phase_order[phase]))
    /\ current_step \notin ConfigSteps
    /\ files = -1
    /\ \E n \in 0..MaxFiles : files' = n
    /\ NoEffect
    /\ UNCHANGED <<pc, phase, step, branches, commits, dirty, test_in_main, crash>>
    /\ UNCHANGED qvars /\ UNCHANGED mvars /\ UNCHANGED gvars /\ UNCHANGED hvars /\ UNCHANGED fvars

\* the for loop over the files of a step is exhausted
loop_exhausted ==
    /\ pc = "steps" /\ step <= Len(phase_steps(phase_order[phase]))
    /\ current_step \notin ConfigSteps
    /\ files = 0
    /\ step' = step + 1 /\ files' = -1
    /\ NoEffect
    /\ UNCHANGED <<pc, phase, branches, commits, dirty, test_in_main, crash>>
    /\ UNCHANGED qvars /\ UNCHANGED mvars /\ UNCHANGED gvars /\ UNCHANGED hvars /\ UNCHANGED fvars

(***************************************************************************)
(* ConfigMigrator: each generated file is a query followed by a write      *)
(* outside any try                                                         *)
(***************************************************************************)
config_query ==
    /\ pc = "steps" /\ step <= Len(phase_steps(phase_order[phase]))
    /\ current_step \in ConfigSteps
    /\ q_state = "idle"
    /\ CallQuery
    /\ pc' = "config_write"
    /\ NoEffect
    /\ UNCHANGED <<phase, step, files, branches, commits, dirty, test_in_main, crash>>
    /\ UNCHANGED mvars /\ UNCHANGED gvars /\ UNCHANGED hvars /\ UNCHANGED fvars

\* write_file_content(path, text): open(path, 'w') creates or empties the
\* file, then file.write(None) raises TypeError
config_write ==
    /\ pc = "config_write" /\ q_state = "returned"
    /\ \E disk_ok \in BOOLEAN :
         IF result = None
         THEN /\ Raise("TypeError") /\ dirty' = TRUE /\ UNCHANGED step
         ELSE IF disk_ok
         THEN /\ pc' = "steps" /\ step' = step + 1 /\ dirty' = TRUE
              /\ UNCHANGED crash
         ELSE /\ Raise("OSError") /\ UNCHANGED <<step, dirty>>
    /\ QueryOver
    /\ Effect("write")
    /\ UNCHANGED <<phase, files, branches, commits, test_in_main>>
    /\ UNCHANGED mvars /\ UNCHANGED gvars /\ UNCHANGED hvars /\ UNCHANGED fvars

(***************************************************************************)
(* EntityMigrator.migrate_entity                                           *)
(***************************************************************************)
\* the first query of an invocation
migrate_entity ==
    /\ in_step("entities") /\ files > 0 /\ q_state = "idle"
    /\ \E f \in EntityFiles : file' = f
    /\ CallQuery
    /\ retry_count' = 0 /\ migrated' = None
    /\ invocation' = [NoInvocation EXCEPT !.state = "running", !.calls = 1]
    /\ validated_reply' = <<>>
    /\ pc' = "entity_validate"
    /\ NoEffect
    /\ UNCHANGED <<phase, step, files, branches, commits, dirty, test_in_main, crash>>
    /\ UNCHANGED gvars /\ UNCHANGED hvars /\ UNCHANGED fvars

\* validate_java_file on what query returned, then the retry loop or the stub
migrate_entity_validate ==
    /\ pc = "entity_validate" /\ q_state = "returned"
    /\ validated_reply' = reply
    /\ IF result = None
       THEN \* content.strip() on None
            /\ Raise("AttributeError")
            /\ invocation' = [invocation EXCEPT !.state = "raised"]
            /\ QueryOver
            /\ UNCHANGED <<retry_count, migrated>>
       ELSE LET valid == validate_java_file(file.name, result)
            IN IF retries_again(valid, retry_count)
               THEN /\ retry_count' = retry_count + 1
                    /\ CallQuery
                    /\ invocation' = [invocation EXCEPT !.calls = @ + 1,
                                                         !.valid = (valid # None)]
                    /\ UNCHANGED <<pc, crash, migrated>>
               ELSE /\ IF valid = None
                       THEN /\ migrated' = entity_stub(
                                   IF file.package # "" THEN file.package
                                   ELSE "org.jboss.as.quickstarts.kitchensink.model",
                                   without_ext(file.name))
                            /\ invocation' = [invocation EXCEPT !.stub = TRUE]
                       ELSE /\ migrated' = valid
                            /\ invocation' = [invocation EXCEPT !.valid = TRUE]
                    /\ QueryOver
                    /\ pc' = "entity_write"
                    /\ UNCHANGED <<retry_count, crash>>
    /\ NoEffect
    /\ UNCHANGED <<phase, step, files, file, branches, commits, dirty, test_in_main>>
    /\ UNCHANGED gvars /\ UNCHANGED hvars /\ UNCHANGED fvars

\* the write in the try block
migrate_entity_write ==
    /\ pc = "entity_write"
    /\ \E disk_ok \in BOOLEAN :
         IF disk_ok
         THEN /\ NextFile
              /\ dirty' = TRUE
              /\ test_in_main' =
                    (test_in_main \/ (~is_test_file(file) /\ is_test_name(file.name)))
              /\ invocation' = [invocation EXCEPT !.state = "returned", !.calls = 0,
                                                   !.written = @ + 1]
              /\ validated_reply' = <<>>
              /\ migrated' = None /\ retry_count' = 0
         ELSE /\ pc' = "entity_fallback"
              /\ UNCHANGED <<files, file, dirty, test_in_main, invocation, migrated,
                             retry_count, validated_reply>>
    /\ Effect("write")
    /\ UNCHANGED <<phase, step, branches, commits, crash>>
    /\ UNCHANGED qvars /\ UNCHANGED gvars /\ UNCHANGED hvars /\ UNCHANGED fvars

\* the write at the fallback path in the except block
migrate_entity_fallback_write ==
    /\ pc = "entity_fallback"
    /\ \E disk_ok \in BOOLEAN :
         IF disk_ok
         THEN /\ NextFile
              /\ dirty' = TRUE
              /\ test_in_main' =
                    (test_in_main \/ (~is_test_file(file) /\ is_test_name(file.name)))
              /\ invocation' = [invocation EXCEPT !.state = "returned", !.calls = 0,
                                                   !.written = @ + 1]
              /\ validated_reply' = <<>>
              /\ migrated' = None /\ retry_count' = 0
              /\ UNCHANGED crash
         ELSE /\ Raise("OSError")
              /\ invocation' = [invocation EXCEPT !.state = "raised"]
              /\ UNCHANGED <<files, file, dirty, test_in_main, migrated, retry_count,
                             validated_reply>>
    /\ Effect("write")
    /\ UNCHANGED <<phase, step, branches, commits>>
    /\ UNCHANGED qvars /\ UNCHANGED gvars /\ UNCHANGED hvars /\ UNCHANGED fvars

(***************************************************************************)
(* RepositoryMigrator.migrate_repository                                   *)
(***************************************************************************)
migrate_repository ==
    /\ in_step("repositories") /\ files > 0 /\ q_state = "idle"
    /\ \E f \in OtherFiles : file' = f
    /\ CallQuery
    /\ retry_count' = 0 /\ migrated' = None
    /\ invocation' = [NoInvocation EXCEPT !.state = "running", !.calls = 1]
    /\ validated_reply' = <<>>
    /\ pc' = "repository_validate"
    /\ NoEffect
    /\ UNCHANGED <<phase, step, files, branches, commits, dirty, test_in_main, crash>>
    /\ UNCHANGED gvars /\ UNCHANGED hvars /\ UNCHANGED fvars

migrate_repository_validate ==
    /\ pc = "repository_validate" /\ q_state = "returned"
    /\ validated_reply' = reply
    /\ IF result = None
       THEN /\ Raise("AttributeError")
            /\ invocation' = [invocation EXCEPT !.state = "raised"]
            /\ QueryOver
            /\ UNCHANGED <<retry_count, migrated>>
       ELSE LET valid == validate_repository_file(file.name, result)
            IN IF retries_again(valid, retry_count)
               THEN /\ retry_count' = retry_count + 1
                    /\ CallQuery
                    /\ invocation' = [invocation EXCEPT !.calls = @ + 1,
                                                         !.valid = (valid # None)]
                    /\ UNCHANGED <<pc, crash, migrated>>
               ELSE /\ IF valid = None
                       THEN /\ migrated' = repository_stub(
                                   IF file.package # "" THEN file.package
                                   ELSE "org.jboss.as.quickstarts.kitchensink.data",
                                   without_ext(file.name))
                            /\ invocation' = [invocation EXCEPT !.stub = TRUE]
                       ELSE /\ migrated' = valid
                            /\ invocation' = [invocation EXCEPT !.valid = TRUE]
                    /\ QueryOver
                    /\ pc' = "repository_write"
                    /\ UNCHANGED <<retry_count, crash>>
    /\ NoEffect
    /\ UNCHANGED <<phase, step, files, file, branches, commits, dirty, test_in_main>>
    /\ UNCHANGED gvars /\ UNCHANGED hvars /\ UNCHANGED fvars

\* repositories are always written under src/main/java
migrate_repository_write ==
    /\ pc = "repository_write"
    /\ \E disk_ok \in BOOLEAN :
         IF disk_ok
         THEN /\ NextFile
              /\ dirty' = TRUE
              /\ test_in_main' = (test_in_main \/ is_test_name(file.name))
              /\ invocation' = [invocation EXCEPT !.state = "returned", !.calls = 0,
                                                   !.written = @ + 1]
              /\ validated_reply' = <<>>
              /\ migrated' = None /\ retry_count' = 0
         ELSE /\ pc' = "repository_fallback"
              /\ UNCHANGED <<files, file, dirty, test_in_main, invocation, migrated,
                             retry_count, validated_reply>>
    /\ Effect("write")
    /\ UNCHANGED <<phase, step, branches, commits, crash>>
    /\ UNCHANGED qvars /\ UNCHANGED gvars /\ UNCHANGED hvars /\ UNCHANGED fvars

migrate_repository_fallback_write ==
    /\ pc = "repository_fallback"
    /\ \E disk_ok \in BOOLEAN :
         IF disk_ok
         THEN /\ NextFile
              /\ dirty' = TRUE
              /\ test_in_main' = (test_in_main \/ is_test_name(file.name))
              /\ invocation' = [invocation EXCEPT !.state = "returned", !.calls = 0,
                                                   !.written = @ + 1]
              /\ validated_reply' = <<>>
              /\ migrated' = None /\ retry_count' = 0
              /\ UNCHANGED crash
         ELSE /\ Raise("OSError")
              /\ invocation' = [invocation EXCEPT !.state = "raised"]
              /\ UNCHANGED <<files, file, dirty, test_in_main, migrated, retry_count,
                             validated_reply>>
    /\ Effect("write")
    /\ UNCHANGED <<phase, step, branches, commits>>
    /\ UNCHANGED qvars /\ UNCHANGED gvars /\ UNCHANGED hvars /\ UNCHANGED fvars


(***************************************************************************)
(* ServiceMigrator.migrate_service, RestMigrator.migrate_rest_endpoint and *)
(* UIMigrator.migrate_controller: a query, a write in a try block and a    *)
(* write at the fallback path in the except block                          *)
(***************************************************************************)
unvalidated_call(step_name) ==
    /\ in_step(step_name) /\ files > 0 /\ q_state = "idle"
    /\ \E f \in OtherFiles : file' = f
    /\ CallQuery
    /\ pc' = "unvalidated_write"
    /\ NoEffect
    /\ UNCHANGED <<phase, step, files, branches, commits, dirty, test_in_main, crash,
                   retry_count, migrated, invocation, validated_reply>>
    /\ UNCHANGED gvars /\ UNCHANGED hvars /\ UNCHANGED fvars

\* the write of what query returned; file.write(None) raises TypeError
\* after open() has created the file, and the except block takes over
unvalidated_write(step_name) ==
    /\ pc = "unvalidated_write" /\ q_state = "returned"
    /\ step <= Len(phase_steps(phase_order[phase])) /\ current_step = step_name
    /\ \E disk_ok \in BOOLEAN :
         IF result # None /\ disk_ok
         THEN /\ NextFile
              /\ dirty' = TRUE
              /\ test_in_main' = (test_in_main \/ is_test_name(file.name))
              /\ migrated' = None
         ELSE /\ pc' = "unvalidated_fallback"
              /\ migrated' = result
              /\ dirty' = (dirty \/ result = None)
              /\ test_in_main' =
                    (test_in_main \/ (result = None /\ is_test_name(file.name)))
              /\ UNCHANGED <<files, file>>
    /\ QueryOver
    /\ Effect("write")
    /\ UNCHANGED <<phase, step, branches, commits, crash, retry_count, invocation,
                   validated_reply>>
    /\ UNCHANGED gvars /\ UNCHANGED hvars /\ UNCHANGED fvars

unvalidated_fallback_write(step_name) ==
    /\ pc = "unvalidated_fallback"
    /\ step <= Len(phase_steps(phase_order[phase])) /\ current_step = step_name
    /\ \E disk_ok \in BOOLEAN :
         IF migrated = None
         THEN /\ Raise("TypeError")
              /\ dirty' = TRUE
              /\ test_in_main' = (test_in_main \/ is_test_name(file.name))
              /\ UNCHANGED <<files, file, migrated>>
         ELSE IF disk_ok
         THEN /\ NextFile
              /\ dirty' = TRUE
              /\ test_in_main' = (test_in_main \/ is_test_name(file.name))
              /\ migrated' = None
              /\ UNCHANGED crash
         ELSE /\ Raise("OSError")
              /\ UNCHANGED <<files, file, migrated, dirty, test_in_main>>
    /\ Effect("write")
    /\ UNCHANGED <<phase, step, branches, commits, retry_count, invocation,
                   validated_reply>>
    /\ UNCHANGED qvars /\ UNCHANGED gvars /\ UNCHANGED hvars /\ UNCHANGED fvars

migrate_service == unvalidated_call("services")
migrate_service_write == unvalidated_write("services")
migrate_service_fallback_write == unvalidated_fallback_write("services")

migrate_rest_endpoint == unvalidated_call("rest")
migrate_rest_endpoint_write == unvalidated_write("rest")
migrate_rest_endpoint_fallback_write == unvalidated_fallback_write("rest")

migrate_controller == unvalidated_call("controllers")
migrate_controller_write == unvalidated_write("controllers")
migrate_controller_fallback_write == unvalidated_fallback_write("controllers")

(***************************************************************************)
(* UIMigrator.migrate_jsf_to_thymeleaf: a query and a write outside any try*)
(***************************************************************************)
migrate_jsf_to_thymeleaf ==
    /\ in_step("jsf") /\ files > 0 /\ q_state = "idle"
    /\ file' = [name |-> <<"index", ".xhtml">>, test_path |-> FALSE, package |-> ""]
    /\ CallQuery
    /\ pc' = "jsf_write"
    /\ NoEffect
    /\ UNCHANGED <<phase, step, files, branches, commits, dirty, test_in_main, crash,
                   retry_count, migrated, invocation, validated_reply>>
    /\ UNCHANGED gvars /\ UNCHANGED hvars /\ UNCHANGED fvars

migrate_jsf_to_thymeleaf_write ==
    /\ pc = "jsf_write" /\ q_state = "returned"
    /\ \E disk_ok \in BOOLEAN :
         IF result = None
         THEN /\ Raise("TypeError") /\ dirty' = TRUE /\ UNCHANGED <<files, file>>
         ELSE IF disk_ok
         THEN /\ NextFile /\ dirty' = TRUE /\ UNCHANGED crash
         ELSE /\ Raise("OSError") /\ UNCHANGED <<files, file, dirty>>
    /\ QueryOver
    /\ Effect("write")
    /\ UNCHANGED <<phase, step, branches, commits, test_in_main, retry_count,
                   migrated, invocation, validated_reply>>
    /\ UNCHANGED gvars /\ UNCHANGED hvars /\ UNCHANGED fvars

(***************************************************************************)
(* EntityMigrator.add_validation_to_entity and                             *)
(* UIMigrator.add_validation_to_controller: everything is inside one try   *)
(* whose except block prints and returns                                   *)
(***************************************************************************)
\* what read_file_content(target_path) gives for a file migrated before
TargetContent ==
    <<"package", "com.acme", ";", NL, "public", "class", "Member", "{", "}">>

\* FileUtils.write_file_content on a file that exists: open(file_path, 'w')
\* empties it, file.write(None) then raises TypeError and the file stays
\* empty; when open fails the file is left as it was
file_after_write(previous, content, disk_ok) ==
    IF ~disk_ok THEN previous
    ELSE IF content = None THEN <<>> ELSE content

\* up to the query; found: the migrated file exists at one of the two paths
\* and its content is read
add_validation_call(step_name, sources) ==
    /\ in_step(step_name) /\ files > 0 /\ q_state = "idle"
    /\ \E f \in sources, found \in BOOLEAN :
         IF found
         THEN /\ file' = f /\ CallQuery /\ pc' = "validation_write"
              /\ migrated' = TargetContent
              /\ UNCHANGED files
         ELSE /\ NextFile /\ UNCHANGED qvars /\ UNCHANGED migrated
    /\ NoEffect
    /\ UNCHANGED <<phase, step, branches, commits, dirty, test_in_main, crash,
                   retry_count, invocation, validated_reply>>
    /\ UNCHANGED gvars /\ UNCHANGED hvars /\ UNCHANGED fvars

\* the write back to the target path: the TypeError of a None and the
\* OSError of a failing disk are both caught by the except block
add_validation_write(step_name) ==
    /\ pc = "validation_write" /\ q_state = "returned"
    /\ step <= Len(phase_steps(phase_order[phase])) /\ current_step = step_name
    /\ \E disk_ok \in BOOLEAN :
         dirty' = (dirty \/ file_after_write(migrated, result, disk_ok) # migrated)
    /\ migrated' = None
    /\ NextFile
    /\ QueryOver
    /\ Effect("write")
    /\ UNCHANGED <<phase, step, branches, commits, test_in_main, crash,
                   retry_count, invocation, validated_reply>>
    /\ UNCHANGED gvars /\ UNCHANGED hvars /\ UNCHANGED fvars

add_validation_to_entity == add_validation_call("validate_entities", EntityFiles)
add_validation_to_entity_write == add_validation_write("validate_entities")

add_validation_to_controller == add_validation_call("validate_controllers", OtherFiles)
add_validation_to_controller_write == add_validation_write("validate_controllers")

(***************************************************************************)
(* TestRunner.run_tests_until_success                                      *)
(***************************************************************************)
NextAttemptFromPrepass ==
    /\ gate_attempt' = gate_attempt + 1
    /\ pc' = IF gate_loop_continues(gate_attempt + 1) THEN "steps" ELSE "gate_final"

\* the end of one iteration of the for loop
NextAttempt ==
    /\ gate_attempt' = gate_attempt + 1
    /\ pc' = IF gate_loop_continues(gate_attempt + 1) THEN "gate_test" ELSE "gate_final"

GateReturnsTrue(value) ==
    /\ gate_result' = [gate_result EXCEPT ![phase] = "true"]
    /\ pc' = "gate_return"

\* the gate returns to the phase method
GateReturns(value) ==
    /\ gate_result' = [gate_result EXCEPT ![phase] = IF value THEN "true" ELSE "false"]
    /\ pc' = "gate_return"

loop_start_carried(previous) == previous

\* "for attempt in range(max_attempts)": the loop variable starts at 0,
\* whatever value an earlier call of the gate left
loop_start(previous) == 0

\* the call of the gate and its pre-pass: a test-named file under the main
\* root is copied to the test root and removed, and the read of the removed
\* file that follows raises FileNotFoundError
_validate_file_structure ==
    /\ pc = "steps" /\ step > Len(phase_steps(phase_order[phase]))
    /\ IF test_in_main
       THEN /\ test_in_main' = FALSE /\ dirty' = TRUE
            /\ Raise("FileNotFoundError")
            /\ Effect("write")
            /\ UNCHANGED gate_attempt
       ELSE /\ pc' = "gate_test" /\ gate_attempt' = loop_start(gate_attempt)
            /\ NoEffect
            /\ UNCHANGED <<test_in_main, dirty, crash>>
    /\ gate_log' = [gate_log EXCEPT !.prepass = @ + 1]
    /\ UNCHANGED <<phase, step, files, branches, commits, gate_result,
                   phase_result, last_test, gate_max>>
    /\ UNCHANGED qvars /\ UNCHANGED mvars /\ UNCHANGED fvars

\* run_tests() in the loop; on failure debug_and_fix_errors queries the oracle
run_tests ==
    /\ pc = "gate_test"
    /\ \E success \in BOOLEAN :
         /\ last_test' = IF success THEN "passed" ELSE "failed"
         /\ IF success
            THEN GateReturns(TRUE) /\ UNCHANGED qvars
            ELSE CallQuery /\ pc' = "gate_repair" /\ UNCHANGED gate_result
    /\ dirty' = FALSE
    /\ gate_log' = [gate_log EXCEPT !.test_runs = @ + 1, !.repair = "none",
                                    !.comprehensive = "none"]
    /\ Effect("test")
    /\ UNCHANGED <<phase, step, files, branches, commits, test_in_main, crash,
                   gate_attempt, phase_result, gate_max>>
    /\ UNCHANGED mvars /\ UNCHANGED fvars

\* debug_and_fix_errors: the solution the oracle gave is applied
debug_and_fix_errors ==
    /\ pc = "gate_repair" /\ q_state = "returned"
    /\ \E disk \in DiskBudgets :
         LET solution == _process_solution(result, disk)
         IN /\ dirty' = (dirty \/ solution.writes > 0)
            /\ test_in_main' = (test_in_main \/ solution.test_in_main)
            /\ IF ~solution.applied /\ tries_comprehensive(gate_attempt)
               THEN CallQuery /\ pc' = "gate_comprehensive" /\ UNCHANGED gate_attempt
               ELSE QueryOver /\ NextAttempt
            /\ gate_log' = [gate_log EXCEPT !.repair =
                               IF solution.applied THEN "applied" ELSE "failed"]
            /\ IF solution.writes > 0 THEN Effect("write") ELSE NoEffect
    /\ UNCHANGED <<phase, step, files, branches, commits, crash, gate_result,
                   phase_result, last_test, gate_max>>
    /\ UNCHANGED mvars /\ UNCHANGED fvars

\* _try_comprehensive_fix: a second query with the file contents, applied
\* the same way
_try_comprehensive_fix ==
    /\ pc = "gate_comprehensive" /\ q_state = "returned"
    /\ \E disk \in DiskBudgets :
         LET solution == _process_solution(result, disk)
         IN /\ dirty' = (dirty \/ solution.writes > 0)
            /\ test_in_main' = (test_in_main \/ solution.test_in_main)
            /\ IF ~solution.applied /\ asks_operator(gate_attempt)
               THEN pc' = "gate_ask" /\ UNCHANGED gate_attempt
               ELSE NextAttempt
            /\ gate_log' = [gate_log EXCEPT !.comprehensive =
                               IF solution.applied THEN "applied" ELSE "failed"]
            /\ IF solution.writes > 0 THEN Effect("write") ELSE NoEffect
    /\ QueryOver
    /\ UNCHANGED <<phase, step, files, branches, commits, crash, gate_result,
                   phase_result, last_test, gate_max>>
    /\ UNCHANGED mvars /\ UNCHANGED fvars

\* input("Tests still failing. Would you like to manually fix and continue? (y/n): ")
ask_operator ==
    /\ pc = "gate_ask"
    /\ \E user_input \in OperatorAnswers :
         /\ IF operator_declines(user_input)
            THEN GateReturns(FALSE) /\ UNCHANGED gate_attempt
            ELSE NextAttempt /\ UNCHANGED gate_result
         /\ gate_log' = [gate_log EXCEPT !.user_input = user_input]
    /\ NoEffect
    /\ UNCHANGED <<phase, step, files, branches, commits, dirty, test_in_main, crash,
                   phase_result, last_test, gate_max>>
    /\ UNCHANGED qvars /\ UNCHANGED mvars /\ UNCHANGED fvars

\* "Final test attempt": run_tests() after the loop, its result is returned
final_run_tests ==
    /\ pc = "gate_final"
    /\ \E success \in BOOLEAN :
         /\ last_test' = IF success THEN "passed" ELSE "failed"
         /\ GateReturns(success)
    /\ dirty' = FALSE
    /\ gate_log' = [gate_log EXCEPT !.test_runs = @ + 1, !.final_run = TRUE]
    /\ Effect("test")
    /\ UNCHANGED <<phase, step, files, branches, commits, test_in_main, crash,
                   gate_attempt, phase_result, gate_max>>
    /\ UNCHANGED qvars /\ UNCHANGED mvars /\ UNCHANGED fvars

(***************************************************************************)
(* The end of a phase method and migrate()                                 *)
(***************************************************************************)
\* after the gate: commit_changes and return True, or return False
commit_changes ==
    /\ pc = "gate_return"
    /\ IF phase_commits(gate_result[phase] = "true")
       THEN /\ commits' = Append(commits, phase_order[phase])
            /\ phase_result' = TRUE
            /\ Effect("commit")
       ELSE /\ phase_result' = FALSE
            /\ NoEffect
            /\ UNCHANGED commits
    /\ pc' = "migrate"
    /\ gate_log' = NoGateLog
    /\ UNCHANGED <<phase, step, files, branches, dirty, test_in_main, crash,
                   gate_attempt, gate_result, last_test, gate_max>>
    /\ UNCHANGED qvars /\ UNCHANGED mvars /\ UNCHANGED fvars

\* migrate(): the next phase, the end, or the return after a failed phase
migrate ==
    /\ pc = "migrate"
    /\ IF migrate_continues(phase_result)
       THEN IF phase < Len(phase_order)
            THEN pc' = "branch" /\ phase' = phase + 1
            ELSE pc' = "done" /\ UNCHANGED phase
       ELSE pc' = "halted" /\ UNCHANGED phase
    /\ NoEffect
    /\ UNCHANGED <<step, files, branches, commits, dirty, test_in_main, crash>>
    /\ UNCHANGED qvars /\ UNCHANGED mvars /\ UNCHANGED gvars /\ UNCHANGED hvars /\ UNCHANGED fvars

Next ==
    \/ query
    \/ create_branch
    \/ gather_code_files
    \/ loop_exhausted
    \/ config_query
    \/ config_write
    \/ migrate_entity
    \/ migrate_entity_validate
    \/ migrate_entity_write
    \/ migrate_entity_fallback_write
    \/ migrate_repository
    \/ migrate_repository_validate
    \/ migrate_repository_write
    \/ migrate_repository_fallback_write
    \/ migrate_service
    \/ migrate_service_write
    \/ migrate_service_fallback_write
    \/ migrate_rest_endpoint
    \/ migrate_rest_endpoint_write
    \/ migrate_rest_endpoint_fallback_write
    \/ migrate_jsf_to_thymeleaf
    \/ migrate_jsf_to_thymeleaf_write
    \/ migrate_controller
    \/ migrate_controller_write
    \/ migrate_controller_fallback_write
    \/ add_validation_to_entity
    \/ add_validation_to_entity_write
    \/ add_validation_to_controller
    \/ add_validation_to_controller_write
    \/ _validate_file_structure
    \/ run_tests
    \/ debug_and_fix_errors
    \/ _try_comprehensive_fix
    \/ ask_operator
    \/ final_run_tests
    \/ commit_changes
    \/ migrate

Spec == Init /\ [][Next]_vars

(***************************************************************************)
(* run_tests_until_success(max_attempts) on its own: called at the end of  *)
(* the first phase with any max_attempts; every step of it is taken once   *)
(* the call it waits for (mvn, the oracle, input) returns.                 *)
(***************************************************************************)
GateInit ==
    /\ pc = "steps" /\ phase = 1 /\ step = Len(phase_steps(phase_order[1])) + 1
    /\ files = -1 /\ file = NoFile
    /\ q_state = "idle" /\ attempt = 0 /\ messages = <<>> /\ sent = <<>>
    /\ status_code = 0 /\ reply = <<>> /\ result = None /\ requests = 0
    /\ retry_count = 0 /\ migrated = None
    /\ gate_attempt = 0 /\ gate_result = [k \in Phases |-> "none"]
    /\ phase_result = FALSE /\ last_test = "none"
    /\ branches = <<branch_name(phase_order[1])>> /\ commits = <<>>
    /\ dirty = TRUE /\ test_in_main \in BOOLEAN
    /\ crash = ""
    /\ acted = [k \in Phases |-> k = 1] /\ after_fail = 0
    /\ invocation = NoInvocation /\ validated_reply = <<>>
    /\ gate_max \in 1..MaxGateAttempts /\ gate_log = NoGateLog
    /\ tree = <<>> /\ prepass_log = NoPrepass /\ resolved = NoCall
    /\ repair = NoRepair /\ validation = NoValidation
    /\ preprocess = NoPreprocess

GateNext ==
    \/ _validate_file_structure
    \/ run_tests
    \/ query
    \/ debug_and_fix_errors
    \/ _try_comprehensive_fix
    \/ ask_operator
    \/ final_run_tests

GateSpec == GateInit /\ [][GateNext]_vars /\ WF_vars(GateNext)

(***************************************************************************)
(* Properties                                                              *)
(***************************************************************************)
IsPrefix(s, t) == Len(s) <= Len(t) /\ SubSeq(t, 1, Len(s)) = s

gate_failed == \E k \in Phases : gate_result[k] = "false"

\* C1: the phases run in the order data, service, REST, UI, validation, and
\* no action of a phase (branch, oracle request, file write, test run)
\* happens unless the test gate of every earlier phase returned True.
C1_PhasesGated ==
    /\ IsPrefix(branches, <<"phase1-data-layer", "phase2-service-layer",
                            "phase3-rest-api", "phase4-ui-layer",
                            "phase5-validation">>)
    /\ \A k \in Phases :
          acted[k] => \A j \in 1..(k - 1) : acted[j] /\ gate_result[j] = "true"

\* the validation phase is at work
C1_Witness == acted[5] /\ pc = "validation_write" /\ q_state = "returned"

\* C2: a commit is made only when the latest test run of the phase passed
\* and no file was written since that run.
C2_CommitAfterPassingTests ==
    [][commits' # commits =>
          /\ last_test = "passed" /\ ~dirty
          /\ gate_result[phase] = "true"
          /\ commits' = Append(commits, phase_order[phase])]_vars

\* a phase was committed after a failed test run and a repair
C2_Witness ==
    /\ pc = "migrate" /\ phase_result /\ gate_attempt >= 1
    /\ Len(commits) = phase /\ phase >= 2

\* C3: once a gate has returned False nothing more is done (no branch, commit,
\* oracle request, file write or test run), and commits are never taken back.
C3_FailStop ==
    [][/\ IsPrefix(commits, commits')
       /\ gate_failed =>
             /\ after_fail' = 0
             /\ UNCHANGED <<branches, commits, requests, dirty, last_test,
                            test_in_main>>]_vars

\* the migration halted in a later phase with earlier phases committed
C3_Witness == pc = "halted" /\ gate_result[3] = "false" /\ Len(commits) = 2

\* C4: a no-result of the gateway never makes a migrator raise (the two
\* exceptions a None raises: .strip() on None in a validator, write(None)).
C4_NoResultNeverFatal == crash \notin {"AttributeError", "TypeError"}

\* C5: migrate_entity and migrate_repository call the gateway at most
\* max_retries + 1 times for an artifact, and not again once a result was
\* valid or the stub was made.
C5_RetryTermination ==
    /\ invocation.calls <= max_retries + 1
    /\ (invocation.state = "running" /\ (invocation.valid \/ invocation.stub))
          => q_state = "idle" /\ migrated # None

\* the stub was made after the initial call and three retries
C5_Witness ==
    /\ invocation.calls = max_retries + 1 /\ invocation.stub
    /\ retry_count = max_retries /\ pc = "repository_write"

\* C6: the generation-validation loop always ends with exactly one artifact
\* written.
C6_ExactlyOneArtifact ==
    invocation.state \in {"returned", "raised"} => invocation.written = 1

\* C7: query sends at most max_attempts requests, goes on only while every
\* reply was rejected, returns the extracted text of the first accepted
\* reply, and returns None when the last attempt's reply is rejected too.
C7_QueryBounded ==
    /\ requests <= max_attempts
    /\ q_state = "running" =>
          /\ requests = attempt /\ requests < max_attempts
          /\ requests > 0 =>
                status_code = 200 /\ _extract_code_if_present(reply) = None
    /\ (q_state = "returned" /\ status_code = 200) =>
          /\ result = _extract_code_if_present(reply)
          /\ result = None => requests = max_attempts
    /\ (q_state = "returned" /\ requests > 1) =>
          \A i \in DOMAIN sent :
             sent[i].role = "assistant" =>
                _extract_code_if_present(sent[i].content) = None

\* every attempt was rejected and the query returned None
C7_Witness ==
    /\ q_state = "returned" /\ requests = max_attempts /\ result = None
    /\ status_code = 200 /\ pc = "entity_validate"

\* C8 as stated: after a non-200 response with attempts left the query goes on.
C8_Non200CountsAsRejection ==
    (status_code \notin {0, 200} /\ requests < max_attempts) => q_state = "running"

\* C8 amended: a non-200 response ends the query at once with None, whatever
\* attempts are left.
C8_Non200EndsQuery ==
    status_code \notin {0, 200} => q_state = "returned" /\ result = None

\* the first request was answered with an error and the query is over
C8_Witness ==
    /\ status_code = 500 /\ requests = 1 /\ q_state = "returned"
    /\ pc = "gate_repair"

\* C9: the messages of a retry hold no earlier user prompt, and hold the
\* rejected reply, the corrective instruction and the strict prompt.
C9_RetryMessages ==
    requests >= 2 =>
       /\ Message("user", Prompt) \notin Range(sent)
       /\ Message("user", Corrective) \in Range(sent)
       /\ Message("user", <<StrictHeader>> \o Prompt) \in Range(sent)
       /\ \E i \in DOMAIN sent : sent[i].role = "assistant"

\* C10: a reply that begins with an explanatory phrase is rejected, and no
\* validator is invoked on the outcome of that reply.
C10_ExplanatoryNeverValidated ==
    /\ (status_code = 200 /\ starts_with_indicator(reply)) =>
          IF q_state = "returned" THEN result = None ELSE q_state = "running"
    /\ ~starts_with_indicator(validated_reply)

(***************************************************************************)
(* The pre-pass and the package resolver on their own: the program has not *)
(* started, a tree or the arguments of a call are given.                   *)
(***************************************************************************)
NotStarted ==
    /\ pc = "branch" /\ phase = 1 /\ step = 1 /\ files = -1 /\ file = NoFile
    /\ q_state = "idle" /\ attempt = 0 /\ messages = <<>> /\ sent = <<>>
    /\ status_code = 0 /\ reply = <<>> /\ result = None /\ requests = 0
    /\ retry_count = 0 /\ migrated = None
    /\ gate_attempt = 0 /\ gate_result = [k \in Phases |-> "none"]
    /\ phase_result = FALSE /\ last_test = "none"
    /\ branches = <<>> /\ commits = <<>> /\ dirty = FALSE /\ test_in_main = FALSE
    /\ crash = ""
    /\ acted = [k \in Phases |-> FALSE] /\ after_fail = 0
    /\ invocation = NoInvocation /\ validated_reply = <<>>
    /\ gate_max = gate_max_attempts /\ gate_log = NoGateLog

PrepassInit ==
    /\ NotStarted
    /\ tree \in Trees /\ prepass_log = NoPrepass /\ resolved = NoCall
    /\ repair = NoRepair /\ validation = NoValidation
    /\ preprocess = NoPreprocess

\* one run of _validate_file_structure on the tree; a second run is made on
\* the tree a completed first run left
run_validate_file_structure ==
    /\ prepass_log.runs < 2 /\ ~prepass_log.raised
    /\ LET st == validate_file_structure(tree)
       IN /\ tree' = st.tree
          /\ prepass_log' =
                [runs |-> prepass_log.runs + 1, raised |-> st.raised,
                 moved |-> st.moved,
                 initial |-> IF prepass_log.runs = 0 THEN tree
                                                    ELSE prepass_log.initial,
                 first |-> IF prepass_log.runs = 0 THEN st.tree
                                                  ELSE prepass_log.first]
    /\ UNCHANGED resolved /\ UNCHANGED pvars
    /\ UNCHANGED qvars /\ UNCHANGED mvars /\ UNCHANGED gvars /\ UNCHANGED hvars
    /\ UNCHANGED ovars

PrepassNext == run_validate_file_structure

\* the resolver is called for one source file with a default package
ResolverInit ==
    /\ NotStarted
    /\ tree \in [1..1 -> [dir : TreeDirs, name : TreeNames, content : ResolverContents]]
    /\ prepass_log = NoPrepass
    /\ resolved \in [called : {FALSE}, default_package : DefaultPackages,
                      package : {""}]
    /\ repair = NoRepair /\ validation = NoValidation
    /\ preprocess = NoPreprocess

call_get_safe_package_path ==
    /\ ~resolved.called
    /\ resolved' =
          [resolved EXCEPT
              !.called = TRUE,
              !.package = get_safe_package_path(
                              tree[1].dir \o <<concat(tree[1].name)>>,
                              tree[1].content, resolved.default_package)]
    /\ UNCHANGED <<tree, prepass_log>> /\ UNCHANGED pvars
    /\ UNCHANGED qvars /\ UNCHANGED mvars /\ UNCHANGED gvars /\ UNCHANGED hvars
    /\ UNCHANGED ovars

ResolverNext == call_get_safe_package_path

ResolverSpec == ResolverInit /\ [][ResolverNext]_vars

PrepassSpec == PrepassInit /\ [][PrepassNext]_vars

(***************************************************************************)
(* _process_solution on its own: one call with a response of the oracle    *)
(* and a disk that takes a number of writes.                               *)
(***************************************************************************)
\* the batches of at most MaxBatch entries
Batches ==
    UNION { {<<"{">> \o [i \in 1..n |-> b[i]] \o <<"}">> : b \in [1..n -> BatchEntries]}
            : n \in 0..MaxBatch }

\* what the oracle may answer to a repair prompt
RepairResponses ==
    Batches \cup
    { None,                                                  \* no-result
      <<"Sorry,", "no", "fix.">>,                            \* no brace
      <<"{", "additional:src/main/java/com/acme/ExtraTest.java">>,  \* cut short
      <<"}", "additional:src/main/java/com/acme/ExtraTest.java", "{">>,
      <<"{", "not json", "}">>,
      <<"{", "{", "additional:src/main/java/com/acme/ExtraTest.java", "}">>,
      <<"The fix:", "{", "modify:src/main/java/com/acme/MemberTest.java", "}", "Done.">> }

RepairInit ==
    /\ NotStarted
    /\ tree = <<>> /\ prepass_log = NoPrepass /\ resolved = NoCall
    /\ validation = NoValidation /\ preprocess = NoPreprocess
    /\ repair \in [state : {"none"}, response : RepairResponses, disk : DiskBudgets,
                    applied : {FALSE}, written : {<<>>}]

\* the call returns: every exception raised inside is caught inside
call_process_solution ==
    /\ repair.state = "none"
    /\ LET solution == _process_solution(repair.response, repair.disk)
       IN repair' = [repair EXCEPT !.state = "returned",
                                   !.applied = solution.applied,
                                   !.written = solution.written]
    /\ UNCHANGED <<tree, prepass_log, resolved, validation, preprocess>>
    /\ UNCHANGED qvars /\ UNCHANGED mvars /\ UNCHANGED gvars /\ UNCHANGED hvars
    /\ UNCHANGED ovars

RepairNext == call_process_solution

RepairSpec == RepairInit /\ [][RepairNext]_vars

(***************************************************************************)
(* The validators on their own: a validator is applied to a content the    *)
(* oracle may give or to the stub its migrator makes, and then to its own  *)
(* output.                                                                 *)
(***************************************************************************)
\* a type declaration, with a parent or without
Decl(kind, name, parent) ==
    <<"public", kind, name>>
    \o (IF parent = "" THEN <<>> ELSE <<"extends", parent>>)
    \o <<"{", "}", NL>>

DeclNames == {"Member", "MemberDto", "Other"}

Decls ==
    {Decl(kind, name, "") : kind \in {"class", "interface"}, name \in DeclNames}
    \cup {Decl("enum", "Member", ""), Decl("interface", "Member", "JpaRepository"),
          Decl("interface", "Other", "JpaRepository")}

\* the contents of at most MaxDecls declarations
ValidatorContents ==
    UNION { {concat_all([i \in 1..n |-> d[i]]) : d \in [1..n -> Decls]}
            : n \in 1..MaxDecls }
    \cup
    { <<"package", "com.acme", ";", NL>> \o Decl("class", "Member", ""),
      <<"package", "com.acme", ";", NL>> \o Decl("interface", "Other", "JpaRepository"),
      <<"int", "x", ";">>,                                  \* no declaration
      <<"class", "Member", "{", "}">>,                      \* not public
      <<"Here is the", "class", NL>> \o Decl("class", "Member", ""),
      \* "public class" without a name in front of two declarations
      <<"public", "class", "{", "}", NL>> \o Decl("class", "Member", "")
          \o Decl("class", "Other", "") }

ValidatorNames == { <<"Member", ".java">>, <<"Member", "Dto", ".java">> }

StubPackages == {"com.acme", "org.jboss.as.quickstarts.kitchensink.model"}

ValidatorInit ==
    /\ NotStarted
    /\ tree = <<>> /\ prepass_log = NoPrepass /\ resolved = NoCall
    /\ repair = NoRepair /\ preprocess = NoPreprocess
    /\ \E file_name \in ValidatorNames :
          \/ \E content \in ValidatorContents, validator \in {"entity", "repository"} :
                validation = [NoValidation EXCEPT !.validator = validator,
                                 !.file_name = file_name, !.content = content]
          \/ \E package \in StubPackages :
                \/ validation = [NoValidation EXCEPT !.validator = "entity",
                                    !.file_name = file_name,
                                    !.content = entity_stub(package, without_ext(file_name))]
                \/ validation = [NoValidation EXCEPT !.validator = "repository",
                                    !.file_name = file_name,
                                    !.content = repository_stub(package,
                                                                without_ext(file_name))]

\* the validator of the migrator
validator_of(validator, file_name, content) ==
    IF validator = "entity" THEN validate_java_file(file_name, content)
                            ELSE validate_repository_file(file_name, content)

\* the validator is applied to the content
call_validator ==
    /\ validation.runs = 0
    /\ validation' = [validation EXCEPT !.runs = 1,
                         !.output = validator_of(validation.validator,
                                                 validation.file_name, validation.content)]
    /\ UNCHANGED <<tree, prepass_log, resolved, repair, preprocess>>
    /\ UNCHANGED qvars /\ UNCHANGED mvars /\ UNCHANGED gvars /\ UNCHANGED hvars
    /\ UNCHANGED ovars

\* the validator is applied to the content it returned
call_validator_again ==
    /\ validation.runs = 1 /\ validation.output # None
    /\ validation' = [validation EXCEPT !.runs = 2,
                         !.again = validator_of(validation.validator,
                                                validation.file_name, validation.output)]
    /\ UNCHANGED <<tree, prepass_log, resolved, repair, preprocess>>
    /\ UNCHANGED qvars /\ UNCHANGED mvars /\ UNCHANGED gvars /\ UNCHANGED hvars
    /\ UNCHANGED ovars

ValidatorNext == call_validator \/ call_validator_again

ValidatorSpec == ValidatorInit /\ [][ValidatorNext]_vars

(***************************************************************************)
(* The fallback stub on its way to the target tree: migrate_entity and     *)
(* migrate_repository from the point where validation has failed for good. *)
(* tree[1] is the source file, the written stub is appended to the tree.   *)
(***************************************************************************)
EntityDefault == "org.jboss.as.quickstarts.kitchensink.model"
RepositoryDefault == "org.jboss.as.quickstarts.kitchensink.repository"

\* the default of "extract_package_from_content(...) or ..." of the stub
stub_default(entity) ==
    IF entity THEN "org.jboss.as.quickstarts.kitchensink.model"
    ELSE "org.jboss.as.quickstarts.kitchensink.data"

\* the directories of the fallback path of the except block
fallback_dirs(entity) ==
    IF entity THEN <<"org", "jboss", "as", "quickstarts", "kitchensink", "model">>
    ELSE <<"org", "jboss.as.quickstarts", "kitchensink", "repository">>

\* package_path.replace('.', '/') as directory segments
RECURSIVE package_dirs(_)
package_dirs(package) ==
    LET dots == {i \in 1..Len(package) : SubSeq(package, i, i) = "."}
    IN IF dots = {} THEN <<package>>
       ELSE LET i == CHOOSE k \in dots : \A j \in dots : k <= j
            IN <<SubSeq(package, 1, i - 1)>>
               \o package_dirs(SubSeq(package, i + 1, Len(package)))

\* which of the two writes the disk takes
StubWrites == {"try", "fallback", "none"}

StubInit ==
    /\ NotStarted
    /\ tree \in [1..1 -> [dir : TreeDirs, name : TreeNames, content : ResolverContents]]
    /\ prepass_log = NoPrepass
    /\ resolved \in [called : {FALSE}, default_package : {EntityDefault, RepositoryDefault},
                      package : {""}]
    /\ repair = NoRepair /\ validation = NoValidation
    /\ preprocess = NoPreprocess

\* the stub, the resolution of its directory and the write
write_fallback_stub ==
    /\ ~resolved.called
    /\ \E disk \in StubWrites :
         LET source == tree[1]
             entity == resolved.default_package = EntityDefault
             declared == extract_package_from_content(source.content)
             package == IF truthy(declared) THEN declared ELSE stub_default(entity)
             stub == IF entity THEN entity_stub(package, without_ext(source.name))
                     ELSE repository_stub(package, without_ext(source.name))
             package_path == get_safe_package_path(
                                 source.dir \o <<concat(source.name)>>,
                                 source.content, resolved.default_package)
             root == IF entity
                     THEN target_dir_type([name |-> source.name,
                                           test_path |-> "test" \in Range(source.dir),
                                           package |-> ""])
                     ELSE "main"
             dirs == IF disk = "try" THEN package_dirs(package_path)
                     ELSE fallback_dirs(entity)
         IN /\ resolved' = [resolved EXCEPT !.called = TRUE, !.package = package_path]
            /\ tree' = IF disk = "none" THEN tree
                       ELSE Append(tree, [dir |-> target_dir \o <<"src", root, "java">>
                                                    \o dirs,
                                          name |-> source.name, content |-> stub])
    /\ UNCHANGED prepass_log /\ UNCHANGED pvars
    /\ UNCHANGED qvars /\ UNCHANGED mvars /\ UNCHANGED gvars /\ UNCHANGED hvars
    /\ UNCHANGED ovars

StubNext == write_fallback_stub

StubSpec == StubInit /\ [][StubNext]_vars

(***************************************************************************)
(* OpenAIClient._preprocess_prompt on its own, by lengths.  A prompt is    *)
(* the text in front of the first java fence (pre characters and pad       *)
(* blanks behind them), the fence (none, open: never closed, closed) and   *)
(* the lines between the fences; a line is its kind and its length and     *)
(* holds no blanks at its ends.                                            *)
(***************************************************************************)
MaxLines == 2

max_prompt_tokens == 6000
budget == max_prompt_tokens * 4
\* len("...\n[Content truncated due to length]")
marker_len == 37
\* the fixed text of truncated_prompt, all sections empty
template_len == 290
\* len of the opening fence with its tag and of the closing fence
fence_len == 7
closing_fence_len == 3
lines_scanned == 500
class_context == 20
max_signatures == 15

LongLen == 30000
PreLens == {0, 40, LongLen}
Pads == {0, 1}
LineKinds == {"package", "import", "class", "method", "other"}
LineLens == {20, LongLen}
Lines == [kind : LineKinds, len : LineLens]

Codes == UNION { [1..n -> Lines] : n \in 0..MaxLines }

Prompts ==
    [pre : PreLens, pad : Pads, fence : {"none"}, lines : {<<>>}]
    \cup [pre : PreLens, pad : Pads, fence : {"open", "closed"}, lines : Codes]

\* len("\n".join(lines))
RECURSIVE join_len(_)
join_len(lines) ==
    IF lines = <<>> THEN 0
    ELSE IF Len(lines) = 1 THEN lines[1].len
    ELSE lines[1].len + 1 + join_len(Tail(lines))

\* the text between the fences: a line break, the lines, a line break;
\* nothing at all when there are no lines
raw_code_len(lines) == IF lines = <<>> THEN 0 ELSE join_len(lines) + 2

\* len(prompt)
prompt_len(prompt) ==
    prompt.pre + prompt.pad
    + (IF prompt.fence = "none" THEN 0 ELSE fence_len + raw_code_len(prompt.lines))
    + (IF prompt.fence = "closed" THEN closing_fence_len ELSE 0)

\* the loop of _extract_code_sections from line i on: the lengths of
\* package_section, import_section and class_section
RECURSIVE scan_sections(_, _, _, _)
scan_sections(lines, i, in_imports, sections) ==
    IF i > Len(lines) \/ i > lines_scanned THEN sections
    ELSE IF lines[i].kind = "package"
    THEN scan_sections(lines, i + 1, in_imports,
             [sections EXCEPT !.package = @ + lines[i].len + 1])
    ELSE IF lines[i].kind = "import"
    THEN scan_sections(lines, i + 1, TRUE,
             [sections EXCEPT !.import = @ + lines[i].len + 1])
    ELSE IF in_imports
    THEN scan_sections(lines, i + 1, FALSE, sections)
    ELSE IF lines[i].kind = "class"
    THEN LET class_index == CHOOSE j \in 1..i :
                               /\ lines[j] = lines[i]
                               /\ \A k \in 1..(j - 1) : lines[k] # lines[i]
             last == IF class_index + class_context - 1 < Len(lines)
                     THEN class_index + class_context - 1 ELSE Len(lines)
         IN [sections EXCEPT !.class = join_len(SubSeq(lines, class_index, last))]
    ELSE scan_sections(lines, i + 1, in_imports, sections)

_extract_code_sections(lines) ==
    scan_sections(lines, 1, FALSE, [package |-> 0, import |-> 0, class |-> 0])

\* the lines _extract_method_signatures keeps
_extract_method_signatures(lines) ==
    LET found == SelectSeq(lines, LAMBDA line : line.kind = "method")
    IN IF Len(found) > max_signatures THEN SubSeq(found, 1, max_signatures) ELSE found

\* start > 7 and end > start: the fence is not at the very start of the
\* prompt, it is closed, and something lies between the fences
takes_skeleton(prompt) ==
    /\ prompt.fence = "closed"
    /\ prompt.pre + prompt.pad > 0
    /\ raw_code_len(prompt.lines) > 0

\* len(truncated_prompt)
skeleton_len(prompt) ==
    LET sections == _extract_code_sections(prompt.lines)
    IN template_len + prompt.pre + sections.package + sections.import
       + sections.class + join_len(_extract_method_signatures(prompt.lines))

\* the length of what _preprocess_prompt returns, and whether it is the
\* condensed prompt
_preprocess_prompt(prompt) ==
    IF prompt_len(prompt) > budget
    THEN IF takes_skeleton(prompt)
         THEN [len |-> skeleton_len(prompt), skeleton |-> TRUE]
         ELSE [len |-> budget + marker_len, skeleton |-> FALSE]
    ELSE [len |-> prompt_len(prompt), skeleton |-> FALSE]

PreprocessInit ==
    /\ NotStarted
    /\ tree = <<>> /\ prepass_log = NoPrepass /\ resolved = NoCall
    /\ repair = NoRepair /\ validation = NoValidation
    /\ preprocess \in [called : {FALSE}, prompt : Prompts, output : {0},
                        skeleton : {FALSE}]

call_preprocess_prompt ==
    /\ ~preprocess.called
    /\ preprocess' = [preprocess EXCEPT
                         !.called = TRUE,
                         !.output = _preprocess_prompt(preprocess.prompt).len,
                         !.skeleton = _preprocess_prompt(preprocess.prompt).skeleton]
    /\ UNCHANGED <<tree, prepass_log, resolved, repair, validation>>
    /\ UNCHANGED qvars /\ UNCHANGED mvars /\ UNCHANGED gvars /\ UNCHANGED hvars
    /\ UNCHANGED ovars

PreprocessNext == call_preprocess_prompt

PreprocessSpec == PreprocessInit /\ [][PreprocessNext]_vars

\* test runs made inside the loop of the gate
loop_runs == gate_log.test_runs - (IF gate_log.final_run THEN 1 ELSE 0)

\* the gate has handed back control: it returned or it raised
gate_over == pc \in {"gate_return", "crashed"}

\* every test run of the loop was made and failed
all_loop_runs_failed ==
    /\ loop_runs = gate_max
    /\ ~(last_test = "passed" /\ ~gate_log.final_run)

\* C11: run_tests_until_success(max_attempts) makes at most max_attempts
\* test-run/repair cycles, at most max_attempts + 1 test runs, and always
\* comes to an end, whatever the tests, the oracle and the operator answer.
C11_GateTerminates ==
    /\ [](/\ gate_attempt <= gate_max
          /\ loop_runs <= gate_max
          /\ gate_log.test_runs <= gate_max + 1
          /\ requests <= max_attempts)
    /\ <>gate_over

\* the loop was exhausted and the final run made: max_attempts + 1 runs
C11_Witness ==
    /\ pc = "gate_return" /\ gate_max = gate_max_attempts
    /\ gate_log.test_runs = gate_max + 1 /\ loop_runs = gate_max

\* C12 as stated: on every path the final test run is made before the gate
\* reports its outcome.
C12_FinalRunOnEveryPath == pc = "gate_return" => gate_log.final_run

\* C12 amended: the final test run is made exactly when the loop ran through
\* all its attempts; a passing run in the loop returns True at once and a
\* declining operator returns False at once, without a further run.
C12_FinalRunOnlyAfterLoop ==
    pc = "gate_return" =>
       IF gate_attempt = gate_max
       THEN /\ gate_log.final_run /\ gate_log.test_runs = gate_max + 1
            /\ gate_result[phase] = (IF last_test = "passed" THEN "true" ELSE "false")
       ELSE /\ ~gate_log.final_run
            /\ \/ /\ last_test = "passed" /\ gate_result[phase] = "true"
                  /\ gate_log.user_input = "<none>"
               \/ /\ last_test = "failed" /\ gate_result[phase] = "false"
                  /\ gate_log.user_input \in OperatorAnswers \ {"y", "Y"}

\* the operator declined and the gate returned without a final run
C12_Witness ==
    /\ pc = "gate_return" /\ gate_log.user_input = "n" /\ ~gate_log.final_run
    /\ gate_log.test_runs = gate_max

C14_OperatorDecides ==
    [][/\ (pc = "gate_ask" /\ pc' # pc) =>
             IF gate_log'.user_input \in {"y", "Y"}
             THEN pc' = "gate_final" /\ gate_result' = gate_result
             ELSE /\ pc' = "gate_return" /\ gate_result'[phase] = "false"
                  /\ UNCHANGED <<requests, dirty, q_state, gate_attempt>>
       /\ (pc = "gate_return" /\ gate_log.user_input \notin {"<none>", "y", "Y"}) =>
             commits' = commits /\ ~phase_result'
       /\ (pc = "gate_final" /\ pc' # pc) =>
             /\ pc' = "gate_return" /\ last_test' # "none"
             /\ gate_result'[phase] = (IF last_test' = "passed" THEN "true" ELSE "false")
      ]_vars

\* the operator typed Y, the further test run passed and the gate returned True
C14_Witness ==
    /\ pc = "gate_return" /\ gate_log.user_input = "Y" /\ gate_log.final_run
    /\ gate_result[phase] = "true"

\* C15: the comprehensive repair is attempted exactly when the ordinary repair
\* of the cycle returned False and the attempt index is at least 2.
C15_ComprehensiveWhen ==
    [][/\ (pc = "gate_repair" /\ gate_log.repair = "none" /\ gate_log'.repair # "none") =>
             (pc' = "gate_comprehensive"
                <=> gate_log'.repair = "failed" /\ gate_attempt >= 2)
       /\ pc' = "gate_comprehensive" =>
             pc \in {"gate_repair", "gate_comprehensive"}
       /\ gate_log'.comprehensive \notin {"none", gate_log.comprehensive} =>
             /\ pc = "gate_comprehensive"
             /\ gate_log.repair = "failed" /\ gate_attempt >= 2
      ]_vars

\* the comprehensive repair is under way on the third attempt
C15_Witness ==
    /\ pc = "gate_comprehensive" /\ gate_attempt = 2 /\ gate_log.repair = "failed"
    /\ q_state = "returned"

\* a test-named file lies under the main root
has_test_in_main(files_on_disk) ==
    \E i \in DOMAIN files_on_disk :
        /\ is_test_name(files_on_disk[i].name)
        /\ in_root(files_on_disk[i].dir, "main")

\* the package of a directory under a root: the segments behind the first
\* main/java or test/java
root_package(dir) ==
    LET marks == {i \in 1..(Len(dir) - 1) :
                     dir[i] \in {"main", "test"} /\ dir[i + 1] = "java"}
        i == CHOOSE k \in marks : \A j \in marks : k <= j
    IN dotted(SubSeq(dir, i + 2, Len(dir)))

\* C16: on a tree with a test-named file under the main root the pre-pass
\* copies the file under the test root, removes the original and returns
\* normally, leaving no test-named file under the main root.
C16_TestFilesRelocated ==
    (prepass_log.runs = 1 /\ has_test_in_main(prepass_log.initial)) =>
       /\ ~prepass_log.raised
       /\ ~has_test_in_main(tree)
       /\ \A i \in DOMAIN prepass_log.initial :
             LET f == prepass_log.initial[i]
             IN (is_test_name(f.name) /\ in_root(f.dir, "main")) =>
                   file_at(tree, replace_main_root(f.dir, 1), f.name) # {}

\* C17: a second run of the pre-pass on the tree a completed first run left
\* moves no file and changes no content.
C17_PrepassIdempotent ==
    prepass_log.runs = 2 =>
       /\ ~prepass_log.raised /\ prepass_log.moved = 0
       /\ tree = prepass_log.first

\* C18: after a completed pre-pass every file under the main or the test root
\* that has a package declaration declares the package of its directory
\* under that root, and a file that did so before is left as it was.
C18_PackagesMatchDirectories ==
    (prepass_log.runs = 1 /\ ~prepass_log.raised) =>
       \A i \in DOMAIN tree :
          LET f == tree[i]
              before == prepass_log.initial[i]
          IN (in_root(f.dir, "main") \/ in_root(f.dir, "test")) =>
                /\ package_match(f.content)[1] # 0 =>
                      package_group(f.content, package_match(f.content))
                         = <<root_package(f.dir)>>
                /\ (/\ package_match(before.content)[1] # 0
                    /\ package_group(before.content, package_match(before.content))
                          = <<root_package(before.dir)>>)
                      => f = before

\* the content has a package declaration
declares_package(content) == package_match(content)[1] # 0

\* the package the declaration names
declared_package(content) ==
    spaced(package_group(content, package_match(content)))

\* C19: when the content has a package declaration the resolver returns its
\* value, whatever the path and the default say.
C19_DeclarationWins ==
    (resolved.called /\ declares_package(tree[1].content)) =>
       resolved.package = declared_package(tree[1].content)

\* C20: for content without a declaration the resolver returns the dotted
\* segments between the java segment and the file name whenever the path has
\* a java segment, also for a file right under it, and the default only when
\* the path has none.
C20_PathThenDefault ==
    (resolved.called /\ ~declares_package(tree[1].content)) =>
       IF "java" \in Range(tree[1].dir)
       THEN resolved.package =
               dotted(SubSeq(tree[1].dir, find_from(tree[1].dir, "java", 1) + 1,
                             Len(tree[1].dir)))
       ELSE resolved.package = resolved.default_package
(***************************************************************************)
(* Repair batches                                                          *)
(***************************************************************************)
\* the text between the first "{" and the last "}" of the response parses
parses(response) ==
    /\ response # None
    /\ \E i, j \in DOMAIN response :
          /\ i < j /\ response[i] = "{" /\ response[j] = "}"
          /\ \A k \in DOMAIN response : response[k] = "{" => i <= k
          /\ \A k \in DOMAIN response : response[k] = "}" => k <= j
          /\ \A k \in (i + 1)..(j - 1) : response[k] \in BatchEntries

\* the entries of a parsed response in the order they are processed
entries_of(response) == solution_entries(response)

has_both_keys(token) == json_entry(token).keys = {"file_path", "code"}

\* C21: for a response without a brace pair, without its closing brace, not
\* parseable between its first "{" and last "}", or absent, _process_solution
\* returns False to its caller and has written no file, none of
\* additional_files in particular
C21_MalformedBatchWritesNothing ==
    (repair.state = "returned" /\ ~parses(repair.response))
        => (~repair.applied /\ repair.written = <<>>)

\* a response cut short before its closing brace, holding an additional file
C21_Witness ==
    /\ repair.state = "returned"
    /\ repair.response = <<"{", "additional:src/main/java/com/acme/ExtraTest.java">>
    /\ ~repair.applied /\ repair.written = <<>>

\* C22 as claimed: whenever the response parses, _process_solution returns
\* True, whatever happens to the individual files
C22_TrueWheneverParsed ==
    (repair.state = "returned" /\ parses(repair.response)) => repair.applied

\* the entries of the batch that are not skipped as explanatory text
write_attempts(response) ==
    Len(SelectSeq(entries_of(response),
            LAMBDA e : ~(/\ json_entry(e).list = "files_to_modify"
                         /\ json_entry(e).name # <<>>
                         /\ json_entry(e).name[Len(json_entry(e).name)] = ".java"
                         /\ Head(json_entry(e).code) \in solution_indicators)))

\* C22 amended: when the response parses, _process_solution returns True
\* exactly when every entry has its path and code fields and every write
\* succeeds; entries skipped as explanatory text do not matter
C22_TrueUnlessEntryFails ==
    (repair.state = "returned" /\ parses(repair.response))
        => (repair.applied <=>
               /\ \A k \in DOMAIN entries_of(repair.response) :
                     has_both_keys(entries_of(repair.response)[k])
               /\ write_attempts(repair.response) <= repair.disk)

\* a batch whose only entry is skipped as explanatory text returns True, and
\* so it does on a disk that takes no write
C22_Witness ==
    /\ repair.state = "returned" /\ repair.applied /\ repair.disk = 0
    /\ repair.response =
          <<"{", "modify:src/main/java/com/acme/MemberTest.java (explanatory)", "}">>

\* "Test" in the name, or the name starts or ends with "test"
marks_test_artifact(name) ==
    LET base == SelectSeq(name, LAMBDA p : p # ".java")
    IN base # <<>> /\ ("Test" \in Range(base) \/ Head(base) = "test"
                       \/ base[Len(base)] = "test")

\* the positions of the files_to_modify entries that name a test artifact
\* under the main root
test_entries_in_main(response) ==
    {k \in DOMAIN entries_of(response) :
        LET e == json_entry(entries_of(response)[k])
        IN /\ e.list = "files_to_modify" /\ e.keys = {"file_path", "code"}
           /\ marks_test_artifact(e.name)
           /\ \E i \in 1..(Len(e.dir) - 1) : e.dir[i] = "main" /\ e.dir[i + 1] = "java"}

writes_for(k) == {i \in DOMAIN repair.written : repair.written[i].entry = k}

\* the entry's path with the main root replaced by the test root
rerouted(k) ==
    LET e == json_entry(entries_of(repair.response)[k])
        i == CHOOSE i \in 1..(Len(e.dir) - 1) : e.dir[i] = "main" /\ e.dir[i + 1] = "java"
    IN target_dir \o [e.dir EXCEPT ![i] = "test"]

\* C23 as claimed: every files_to_modify entry that names a test artifact
\* under the main root gets exactly one write, at the path under the test
\* root, and none at the proposed path
C23_TestEntryWrittenOnceUnderTestRoot ==
    (repair.state = "returned" /\ parses(repair.response))
        => \A k \in test_entries_in_main(repair.response) :
              /\ Cardinality(writes_for(k)) = 1
              /\ \A i \in writes_for(k) : repair.written[i].dir = rerouted(k)

\* C23 amended: for a files_to_modify entry that names a .java test artifact
\* under the main root no write is made at the proposed path, and when
\* _process_solution returns True and the code of the entry is not
\* explanatory text the entry got exactly one write, under the test root
C23_JavaTestEntryRerouted ==
    (repair.state = "returned" /\ parses(repair.response))
        => \A k \in test_entries_in_main(repair.response) :
              LET e == json_entry(entries_of(repair.response)[k])
              IN e.name[Len(e.name)] = ".java"
                 => /\ \A i \in writes_for(k) :
                          /\ repair.written[i].dir = rerouted(k)
                          /\ repair.written[i].name = e.name
                    /\ (repair.applied /\ Head(e.code) \notin solution_indicators)
                          => Cardinality(writes_for(k)) = 1

\* a batch with a test under the main root was applied
C23_Witness ==
    /\ repair.state = "returned" /\ repair.applied
    /\ \E k \in test_entries_in_main(repair.response) :
          /\ Cardinality(writes_for(k)) = 1
          /\ \A i \in writes_for(k) :
                repair.written[i].dir = <<"out", "src", "test", "java", "com", "acme">>

\* C27: whenever _process_solution returns False, no file of the batch has
\* been written
C27_NoPartialApplication ==
    (repair.state = "returned" /\ ~repair.applied) => repair.written = <<>>

(***************************************************************************)
(* The validators                                                          *)
(***************************************************************************)
\* the positions of the declarations "public <kind> <name>" of a text
public_declarations(text, kinds) ==
    {i \in 1..(Len(text) - 2) :
        text[i] = "public" /\ text[i + 1] \in kinds /\ text[i + 2] \notin Punct}

\* the base name of the file the validator was given
expected_name == concat(SelectSeq(validation.file_name, LAMBDA part : part # ".java"))

accepted == validation.runs >= 1 /\ validation.output # None

\* C24: a validator applied to its own output returns it unchanged
C24_ValidatorsIdempotent ==
    validation.runs = 2 => validation.again = validation.output

\* the content is the stub the migrator of the validator makes for the file
is_stub ==
    \E package \in StubPackages :
        \/ /\ validation.validator = "entity"
           /\ validation.content = entity_stub(package, expected_name)
        \/ /\ validation.validator = "repository"
           /\ validation.content = repository_stub(package, expected_name)

\* C25: the stub of migrate_entity passes validate_java_file and the stub of
\* migrate_repository passes validate_repository_file, returned as it is
C25_StubPassesUnmodified ==
    (validation.runs >= 1 /\ is_stub) => validation.output = validation.content

\* C28: a content returned by a validator holds exactly one public type
\* declaration; of several, the first is kept as it is after name correction
\* and the marker stands where the second began
C28_ExactlyOneDeclaration ==
    accepted =>
        /\ Cardinality(public_declarations(validation.output,
                                           {"class", "interface", "enum"})) = 1
        /\ Cardinality(public_declarations(validation.content,
                                           {"class", "interface", "enum"})) > 1
              => validation.output[Len(validation.output)] = Marker

\* the content holds a declaration of a kind the validator looks for
holds_declaration(kinds) == public_declarations(validation.content, kinds) # {}

\* C29: name correction never rejects, and every public type declaration of
\* a returned content carries the expected file base name
C29_DeclarationsCarryExpectedName ==
    validation.runs >= 1 =>
        /\ (/\ validation.output = None
            /\ Head(validation.content) \notin explanation_indicators)
              => ~holds_declaration(IF validation.validator = "entity"
                                    THEN {"class", "interface", "enum"}
                                    ELSE {"interface"})
        /\ validation.output # None
              => \A i \in public_declarations(validation.output,
                                              {"class", "interface", "enum"}) :
                    \/ validation.output[i + 2] = expected_name
                    \/ /\ validation.validator = "repository"
                       /\ validation.output[i + 1] # "interface"

\* C30 as claimed: a validator accepts only content with a public
\* declaration of its kind, class for entities and interface for
\* repositories
C30_AcceptsOnlyItsKind ==
    accepted => holds_declaration(IF validation.validator = "entity"
                                  THEN {"class"} ELSE {"interface"})

\* C30 amended: a validator accepts only content with a public declaration
\* of a kind it looks for (class, interface or enum for entities, interface
\* for repositories) and returns None without one; content with such a
\* declaration that does not start with an explanatory phrase is accepted,
\* with or without a package declaration
C30_AcceptsOnlyKindsItLooksFor ==
    validation.runs >= 1 =>
        LET kinds == IF validation.validator = "entity"
                     THEN {"class", "interface", "enum"} ELSE {"interface"}
        IN /\ validation.output # None => holds_declaration(kinds)
           /\ (holds_declaration(kinds)
               /\ Head(validation.content) \notin explanation_indicators)
                 => validation.output # None

\* an entity content without a package declaration is accepted, and a
\* repository content that holds only a class is rejected
C30_Witness ==
    \/ /\ accepted /\ validation.validator = "entity"
       /\ "package" \notin Range(validation.content)
       /\ holds_declaration({"class"})
    \/ /\ validation.runs >= 1 /\ validation.output = None
       /\ validation.validator = "repository"
       /\ holds_declaration({"class"})

(***************************************************************************)
(* Write failures in the migrators                                         *)
(***************************************************************************)
\* C26: when the write at the fallback path fails too, only the migrator
\* invocation is aborted: the run is not ended by the exception, so the
\* remaining artifacts are migrated and the test gate of the phase runs
C26_SecondFailureAbortsInvocationOnly ==
    [][(pc \in {"entity_fallback", "repository_fallback", "unvalidated_fallback"})
          => (~(pc' = "crashed" /\ crash' = "OSError"))]_vars

(***************************************************************************)
(* Branches and commits of a run                                           *)
(***************************************************************************)
\* C40: the committed phases are a prefix of the phase order, each phase
\* committed at most once; the branches created are as many as the commits
\* or one more; the run reports its success only with all five phases
\* committed
C40_CommitsFollowPhases ==
    /\ IsPrefix(commits, phase_order)
    /\ Len(branches) \in {Len(commits), Len(commits) + 1}
    /\ pc = "done" => Len(commits) = 5

\* "Migration completed successfully!" is printed
C40_Witness == pc = "done" /\ Len(commits) = 5 /\ Len(branches) = 5

(***************************************************************************)
(* What the gate returns                                                   *)
(***************************************************************************)
\* C36: run_tests_until_success returns True exactly when the last test run
\* it made passed; a passing test run makes it return True at once, so no
\* repair is invoked after that run
C36_ReturnsLastTestResult ==
    [][/\ (pc' = "gate_return" /\ pc # "gate_return")
            => /\ (gate_result'[phase] = "true") <=> (last_test' = "passed")
               /\ (gate_result'[phase] = "true")
                     => (gate_log'.test_runs = gate_log.test_runs + 1 /\ ~dirty')
       /\ (gate_log'.test_runs = gate_log.test_runs + 1 /\ last_test' = "passed")
            => (pc' = "gate_return" /\ gate_result'[phase] = "true")]_vars

\* the gate returned True on a test run that followed a repair
C36_Witness ==
    /\ pc = "gate_return" /\ gate_result[phase] = "true"
    /\ gate_log.test_runs >= 2 /\ ~gate_log.final_run

(***************************************************************************)
(* Attempt counters                                                        *)
(***************************************************************************)
\* C33: every migrate_entity / migrate_repository call starts with retry
\* count 0 and counts its own gateway calls only; every call of
\* run_tests_until_success starts at attempt 0
C33_CountersNotShared ==
    [][/\ (invocation'.calls = 1 /\ invocation.calls # 1) => (retry_count' = 0)
       /\ (invocation'.state = "running")
            => (retry_count' = invocation'.calls - 1)
       /\ (pc = "steps" /\ pc' = "gate_test") => (gate_attempt' = 0)]_vars

\* the gate of the second phase starts its loop
C33_Witness ==
    /\ pc = "gate_test" /\ phase = 2 /\ gate_attempt = 0 /\ gate_log.test_runs = 0
    /\ gate_result[1] = "true"

(***************************************************************************)
(* Order of the steps of a phase                                           *)
(***************************************************************************)
in_gate == pc \in {"gate_test", "gate_repair", "gate_comprehensive", "gate_ask",
                   "gate_final", "gate_return"}

C35_NoTestFileInMainAtTestRun ==
    pc \in {"gate_test", "gate_final"} => ~test_in_main

\* C39: when migrate_entity writes, in the try block or at the fallback
\* path, the file goes under the test root exactly when its name matches
\* the test-name pattern of the pre-pass, whatever its source path is
C39_TestRootIffTestName ==
    pc \in {"entity_write", "entity_fallback"} =>
        ((target_dir_type(file) = "test") <=> is_test_name(file.name))

\* the path of a directory relative to the target root it lies under
below_target(dir) == SubSeq(dir, find_from(dir, "out", 1) + 1, Len(dir))

\* C38: after a completed pre-pass two files under a root that have the same
\* path relative to their target roots and declare a package declare the
\* same package, whatever the directories above the target roots are called
C38_PackageDependsOnRelativePath ==
    (prepass_log.runs = 1 /\ ~prepass_log.raised) =>
       \A i, j \in DOMAIN tree :
          (/\ below_target(tree[i].dir) = below_target(tree[j].dir)
           /\ in_root(tree[i].dir, "main") \/ in_root(tree[i].dir, "test")
           /\ declares_package(tree[i].content)
           /\ declares_package(tree[j].content))
             => declared_package(tree[i].content) = declared_package(tree[j].content)

\* C37: in the validation phase, when the oracle gives no result to
\* add_validation_to_entity or add_validation_to_controller, the call leaves
\* the target tree as it was: the migrated file keeps the content read from it
C37_NoResultKeepsFile ==
    [][(pc = "validation_write" /\ pc' # "validation_write" /\ result = None)
          => (dirty' = dirty)]_vars

\* C31: a written fallback stub declares the package of the directory it is
\* written to, whether or not the source declares a package and whether or
\* not its path has a java segment, for entities and for repositories
C31_StubPackageMatchesDirectory ==
    (resolved.called /\ Len(tree) = 2) =>
        declared_package(tree[2].content) = root_package(tree[2].dir)

\* C34: what _preprocess_prompt returns is at most the character budget plus
\* the truncation marker when the prompt has no java block, and stays under
\* the same constant when the condensed prompt is substituted
C34_PromptBounded ==
    preprocess.called =>
        /\ preprocess.prompt.fence = "none"
              => preprocess.output <= budget + marker_len
        /\ preprocess.skeleton => preprocess.output <= budget + marker_len

====
